---- MODULE Spec2Model ----
(***************************************************************************)
(* A model of the Hogskoleprovet extraction engine                         *)
(* (scripts/parse_hogskoleprovet.py) and of its pipeline orchestrator      *)
(* (scripts/pipeline.py).                                                  *)
(*                                                                         *)
(* Text is a sequence of characters.  An ASCII character is the one-       *)
(* character string; a non-ASCII code point is a named token:              *)
(*   CYR_A U+0410   cyr_a U+0430   CYR_BE U+0411   CYR_VE U+0412           *)
(*   CYR_ES U+0421  cyr_es U+0441  CYR_DE U+0414   CYR_IE U+0415           *)
(*   cyr_ie U+0435  GR_ALPHA U+0391  GR_BETA U+0392  GR_EPSILON U+0395     *)
(*   GR_GAMMA U+0393 (a letter in none of the tables)                      *)
(* Regular expressions are transcribed as syntax trees and matched by a    *)
(* backtracking matcher with the priority order of Python's re module.     *)
(***************************************************************************)
EXTENDS Integers, Sequences, FiniteSets, TLC

VARIABLES
    phase,      \* the position of the procedure in progress
    tables,     \* the module-level tables SECTIONS_KVANT, SECTIONS_VERBAL, SECTIONS
    letter,     \* normalize_letter: the character given first
    norm,       \* normalize_letter: the values returned so far, each call on the last
    block,      \* parse_options_from_block: [text, section]
    strategy,   \* parse_options_from_block: the strategy reached (1..6)
    cands,      \* the candidates of that strategy still to hand to add_option
    options,    \* parse_options_from_block: the list `options`
    found_letters, \* parse_options_from_block: the set `found_letters`
    last,       \* the latest add_option call: [called, letter, before]
    md_text,    \* the document text (the markdown file of the entry)
    hints,      \* [exam_date, provpass, provpass_type] given to parse_markdown
    result,     \* what the latest parse_markdown call returned
    runs,       \* what each parse_markdown call on md_text returned, in order
    the_ranges, \* what parse_section_ranges returned for md_text, if called
    the_blocks, \* what split_into_questions returned for md_text, if called
    files,      \* data/: [parsed, overrides, final, images] of the entry's key
    data,       \* process_entry: parsed_data / merged_data
    merge_only, \* process_entry: its merge_only argument
    status      \* what the latest compute_status call returned

vars == <<phase, tables, letter, norm, block, strategy, cands, options, found_letters,
          last, md_text, hints, result, runs, the_ranges, the_blocks, files, data,
          merge_only, status>>

normVars == <<letter, norm>>
optVars == <<block, strategy, cands, options, found_letters, last>>
parseVars == <<result, runs, the_ranges, the_blocks>>
docVars == <<md_text, hints>>
pipeVars == <<files, data, merge_only, status>>

(***************************************************************************)
(* Characters                                                              *)
(***************************************************************************)
Digits == {"0", "1", "2", "3", "4", "5", "6", "7", "8", "9"}

\* \s : the whitespace characters of the model's alphabet
Whitespace == {" ", "\n", "\t"}

LatinUpper == {"A", "B", "C", "D", "E", "F", "G", "H", "I", "J", "K", "L", "M",
               "N", "O", "P", "Q", "R", "S", "T", "U", "V", "W", "X", "Y", "Z"}

LatinLower == {"a", "b", "c", "d", "e", "f", "g", "h", "i", "j", "k", "l", "m",
               "n", "o", "p", "q", "r", "s", "t", "u", "v", "w", "x", "y", "z"}

NonLatinLetters == {"CYR_A", "cyr_a", "CYR_BE", "CYR_VE", "CYR_ES", "cyr_es",
                    "CYR_DE", "CYR_IE", "cyr_ie", "GR_ALPHA", "GR_BETA",
                    "GR_EPSILON", "GR_GAMMA"}

\* \w : letters of any script, digits and the underscore
WordChars == LatinUpper \cup LatinLower \cup NonLatinLetters \cup Digits \cup {"_"}

(***************************************************************************)
(* Sequence helpers                                                        *)
(***************************************************************************)
\* the sequence f as an explicit tuple (the same value)
AsSeq(f) == f \o <<>>

\* F applied to the value of v.  v is computed before F's body, as the
\* statement of the code that assigns a local runs before those that read it.
Bind(v, F(_)) == CHOOSE r \in {F(x) : x \in {v}} : TRUE

\* the concatenation of the sequences ss[a..b]
RECURSIVE FlattenRange(_, _, _)
FlattenRange(ss, a, b) ==
    IF a > b THEN <<>>
    ELSE IF a = b THEN ss[a]
    ELSE FlattenRange(ss, a, (a + b) \div 2) \o FlattenRange(ss, (a + b) \div 2 + 1, b)

Flatten(ss) == FlattenRange(ss, 1, Len(ss))

\* s[a:b] of Python with 1-based a and exclusive b
Slice(s, a, b) == IF b <= a THEN <<>> ELSE SubSeq(s, a, b - 1)

RECURSIVE LStrip(_)
LStrip(s) == IF s # <<>> /\ Head(s) \in Whitespace THEN LStrip(Tail(s)) ELSE s

RECURSIVE RStrip(_)
RStrip(s) ==
    IF s # <<>> /\ s[Len(s)] \in Whitespace THEN RStrip(SubSeq(s, 1, Len(s) - 1)) ELSE s

\* str.strip()
Strip(s) == LStrip(RStrip(s))

(***************************************************************************)
(* Regular expressions: syntax trees                                       *)
(***************************************************************************)
Cls(S) == [t |-> "cls", s |-> S, neg |-> FALSE]
NotCls(S) == [t |-> "cls", s |-> S, neg |-> TRUE]
Ch(c) == Cls({c})
Dot == NotCls({"\n"})
DotAll == NotCls({})
Bol == [t |-> "bol"]
Eol == [t |-> "eol"]
Cat(rs) == [t |-> "cat", rs |-> rs]
Alt(rs) == [t |-> "alt", rs |-> rs]
Rep(r, lo, hi) == [t |-> "rep", r |-> r, lo |-> lo, hi |-> hi, lazy |-> FALSE]
LazyRep(r, lo, hi) == [t |-> "rep", r |-> r, lo |-> lo, hi |-> hi, lazy |-> TRUE]
Unbounded == 1000000
Opt(r) == Rep(r, 0, 1)
Star(r) == Rep(r, 0, Unbounded)
Plus(r) == Rep(r, 1, Unbounded)
LazyStar(r) == LazyRep(r, 0, Unbounded)
LazyPlus(r) == LazyRep(r, 1, Unbounded)
Grp(k, r) == [t |-> "grp", k |-> k, r |-> r]
Ahead(r) == [t |-> "look", r |-> r, neg |-> FALSE]
NotAhead(r) == [t |-> "look", r |-> r, neg |-> TRUE]
NotBehind(S) == [t |-> "behind", s |-> S]
Lit(s) == Cat(AsSeq([i \in 1..Len(s) |-> Ch(s[i])]))

\* group k of a match: <<start, end>> with end exclusive, <<0, 0>> when unset
NoGroups == [k \in 1..4 |-> <<0, 0>>]

(***************************************************************************)
(* The backtracking matcher.  M(r, s, i, g) is the sequence of the ways r  *)
(* matches s from position i, in the order re tries them; each is          *)
(* [e |-> the position after the match, g |-> the groups].                 *)
(***************************************************************************)
RECURSIVE M(_, _, _, _)
RECURSIVE MCat(_, _, _, _)
RECURSIVE MAlt(_, _, _, _, _)
RECURSIVE MRep(_, _, _, _, _)
RECURSIVE MEach(_, _, _, _, _)

\* the first position from i on where the run of class c in s ends
RunEnd(c, s, i) ==
    CHOOSE j \in i..(Len(s) + 1) :
        /\ j = Len(s) + 1 \/ (s[j] \in c.s) = c.neg
        /\ \A k \in i..(j - 1) : (s[k] \in c.s) # c.neg

\* the ways of a repetition of one character class that can take up to `top`
\* characters: the longest first when greedy, the shortest first when lazy
RepWays(r, i, g, top) ==
    IF top < r.lo THEN <<>>
    ELSE AsSeq([n \in 1..(top - r.lo + 1) |->
            [e |-> i + (IF r.lazy THEN r.lo + n - 1 ELSE top - n + 1), g |-> g]])

Smaller(a, b) == IF a < b THEN a ELSE b

MRepCls(r, s, i, g) == RepWays(r, i, g, Smaller(RunEnd(r.r, s, i) - i, r.hi))

M(r, s, i, g) ==
    CASE r.t = "cls" ->
            IF i <= Len(s) /\ ((s[i] \in r.s) # r.neg)
            THEN <<[e |-> i + 1, g |-> g]>> ELSE <<>>
      [] r.t = "bos" ->
            IF i = 1 THEN <<[e |-> i, g |-> g]>> ELSE <<>>
      [] r.t = "bol" ->
            IF i = 1 \/ s[i - 1] = "\n" THEN <<[e |-> i, g |-> g]>> ELSE <<>>
      [] r.t = "eos" ->
            IF i = Len(s) + 1 \/ (i = Len(s) /\ s[i] = "\n")
            THEN <<[e |-> i, g |-> g]>> ELSE <<>>
      [] r.t = "eol" ->
            IF i = Len(s) + 1 \/ s[i] = "\n" THEN <<[e |-> i, g |-> g]>> ELSE <<>>
      [] r.t = "cat" -> MCat(r.rs, 1, s, <<[e |-> i, g |-> g]>>)
      [] r.t = "alt" -> MAlt(r.rs, 1, s, i, g)
      [] r.t = "rep" -> IF r.r.t = "cls" THEN MRepCls(r, s, i, g) ELSE MRep(r, 0, s, i, g)
      [] r.t = "grp" ->
            LET ms == M(r.r, s, i, g)
            IN  AsSeq([n \in 1..Len(ms) |->
                    [e |-> ms[n].e, g |-> [ms[n].g EXCEPT ![r.k] = <<i, ms[n].e>>]]])
      [] r.t = "look" ->
            IF (M(r.r, s, i, g) # <<>>) # r.neg THEN <<[e |-> i, g |-> g]>> ELSE <<>>
      [] r.t = "behind" ->
            IF i > 1 /\ s[i - 1] \in r.s THEN <<>> ELSE <<[e |-> i, g |-> g]>>

\* the ways r matches s after each of `ways`, in the order of `ways`
Then(r, s, ways) ==
    IF Len(ways) = 1 THEN M(r, s, ways[1].e, ways[1].g)
    ELSE Flatten(AsSeq([n \in 1..Len(ways) |-> M(r, s, ways[n].e, ways[n].g)]))

\* the ways rs[k], rs[k+1], ... match s one after the other, after each of `ways`
MCat(rs, k, s, ways) ==
    IF ways = <<>> \/ k > Len(rs) THEN ways ELSE MCat(rs, k + 1, s, Then(rs[k], s, ways))

MAlt(rs, k, s, i, g) ==
    IF k > Len(rs) THEN <<>> ELSE M(rs[k], s, i, g) \o MAlt(rs, k + 1, s, i, g)

\* one more iteration of r.r from each way ms[n] (an iteration that consumes
\* nothing ends the repetition)
MEach(r, n, s, ms, i) ==
    Flatten(AsSeq([k \in 1..Len(ms) |->
                IF ms[k].e > i THEN MRep(r, n + 1, s, ms[k].e, ms[k].g) ELSE <<>>]))

MRep(r, n, s, i, g) ==
    LET stop == IF n >= r.lo THEN <<[e |-> i, g |-> g]>> ELSE <<>>
        more == IF n < r.hi THEN MEach(r, n, s, M(r.r, s, i, g), i) ELSE <<>>
    IN  IF r.lazy THEN stop \o more ELSE more \o stop

\* the ways r matches s from each position 1..Len(s)+1
AllMatches(r, s) == AsSeq([p \in 1..(Len(s) + 1) |-> M(r, s, p, NoGroups)])

\* [s, e, g] of a match, or the record with s = 0 when there is none
NoMatch == [s |-> 0, e |-> 0, g |-> NoGroups]

\* the first position from `from` on where the table has a match, else 0
FirstFrom(tab, from) ==
    IF \E p \in from..Len(tab) : tab[p] # <<>>
    THEN CHOOSE p \in from..Len(tab) : tab[p] # <<>> /\ \A k \in from..(p - 1) : tab[k] = <<>>
    ELSE 0

MatchOf(tab, p) == IF p = 0 THEN NoMatch ELSE [s |-> p, e |-> tab[p][1].e, g |-> tab[p][1].g]

SearchIn(tab, from) == MatchOf(tab, FirstFrom(tab, from))

\* re.search from position `from`
Search(r, s, from) == SearchIn(AllMatches(r, s), from)

\* re.finditer: the non-overlapping matches, left to right
RECURSIVE FindIterIn(_, _)
FindIterAfter(tab, m) ==
    IF m.s = 0 THEN <<>>
    ELSE <<m>> \o FindIterIn(tab, IF m.e > m.s THEN m.e ELSE m.e + 1)

FindIterIn(tab, from) ==
    IF from > Len(tab) THEN <<>> ELSE FindIterAfter(tab, SearchIn(tab, from))

FindIter(r, s) == FindIterIn(AllMatches(r, s), 1)

\* match.group(k)
Group(s, m, k) == Slice(s, m.g[k][1], m.g[k][2])

(***************************************************************************)
(* int() and str() on decimal numerals                                     *)
(***************************************************************************)
DigitVal(c) ==
    CASE c = "0" -> 0 [] c = "1" -> 1 [] c = "2" -> 2 [] c = "3" -> 3 [] c = "4" -> 4
      [] c = "5" -> 5 [] c = "6" -> 6 [] c = "7" -> 7 [] c = "8" -> 8 [] c = "9" -> 9

RECURSIVE ParseInt(_)
ParseInt(ds) ==
    IF ds = <<>> THEN 0 ELSE 10 * ParseInt(SubSeq(ds, 1, Len(ds) - 1)) + DigitVal(ds[Len(ds)])

DigitChar(d) == <<"0", "1", "2", "3", "4", "5", "6", "7", "8", "9">>[d + 1]

RECURSIVE IntToStr(_)
IntToStr(n) == IF n < 10 THEN <<DigitChar(n)>> ELSE IntToStr(n \div 10) \o <<DigitChar(n % 10)>>

(***************************************************************************)
(* split_into_questions                                                    *)
(***************************************************************************)
\* ^(?:[-*]\s*)?(?:#{1,4}\s*)?(?:\*\*)?(\d{1,2})\.(?:\*\*)?\s   (MULTILINE)
question_pattern ==
    Cat(<<Bol,
          Opt(Cat(<<Cls({"-", "*"}), Star(Cls(Whitespace))>>)),
          Opt(Cat(<<Rep(Ch("#"), 1, 4), Star(Cls(Whitespace))>>)),
          Opt(Lit(<<"*", "*">>)),
          Grp(1, Rep(Cls(Digits), 1, 2)),
          Ch("."),
          Opt(Lit(<<"*", "*">>)),
          Cls(Whitespace)>>)

\* blocks that all run to the end of the document
Blocks_to_end(text, matches) ==
    AsSeq([i \in 1..Len(matches) |->
        [q_num |-> ParseInt(Group(text, matches[i], 1)),
         block_text |-> Strip(Slice(text, matches[i].s, Len(text) + 1))]])

\* the blocks between the label matches: each runs to the next label or the end
Blocks(text, matches) ==
    AsSeq([i \in 1..Len(matches) |->
        [q_num |-> ParseInt(Group(text, matches[i], 1)),
         block_text |-> Strip(Slice(text, matches[i].s,
                                    IF i + 1 <= Len(matches) THEN matches[i + 1].s
                                    ELSE Len(text) + 1))]])

\* a splitter that returns the whole text as one block when no label matches
split_whole_document(text) ==
    IF FindIter(question_pattern, text) = <<>>
    THEN <<[q_num |-> 0, block_text |-> Strip(text)]>>
    ELSE Blocks(text, FindIter(question_pattern, text))

split_into_questions(text) == Blocks(text, FindIter(question_pattern, text))

(***************************************************************************)
(* re.sub and substring search                                             *)
(***************************************************************************)
\* A replacement template is a sequence of [lit |-> c] and [ref |-> n] items:
\* the character c, and \n, the text of group n of the match.
LitT(cs) == AsSeq([k \in 1..Len(cs) |-> [lit |-> cs[k]]])
RefT(n) == <<[ref |-> n]>>

Expand(repl, s, m) ==
    Flatten(AsSeq([k \in 1..Len(repl) |->
        IF "ref" \in DOMAIN repl[k] THEN Group(s, m, repl[k].ref) ELSE <<repl[k].lit>>]))

\* the text between the matches ms of s, each match replaced by its expansion
SubParts(s, repl, ms) ==
    IF ms = <<>> THEN s
    ELSE Flatten(AsSeq([k \in 1..Len(ms) |->
            Slice(s, IF k = 1 THEN 1 ELSE ms[k - 1].e, ms[k].s) \o Expand(repl, s, ms[k])]))
            \o Slice(s, ms[Len(ms)].e, Len(s) + 1)

\* re.sub(r, repl, s)
SubWith(r, s, repl) == SubParts(s, repl, FindIter(r, s))

\* `sub in s` for strings
Contains(s, sub) ==
    \E i \in 1..(Len(s) - Len(sub) + 1) : SubSeq(s, i, i + Len(sub) - 1) = sub

(***************************************************************************)
(* The module-level tables (parse_hogskoleprovet.py lines 18-31).  Section  *)
(* names are carried as opaque strings, written here without diacritics;   *)
(* the code LAS stands for the three characters L, A-umlaut, S.            *)
(***************************************************************************)
SECTIONS_KVANT ==
    [XYZ |-> [name |-> "Matematisk problemlosning", options |-> <<"A", "B", "C", "D">>],
     KVA |-> [name |-> "Kvantitativa jamforelser", options |-> <<"A", "B", "C", "D">>],
     NOG |-> [name |-> "Kvantitativa resonemang", options |-> <<"A", "B", "C", "D", "E">>],
     DTK |-> [name |-> "Diagram, tabeller och kartor", options |-> <<"A", "B", "C", "D">>]]

SECTIONS_VERBAL ==
    [ORD |-> [name |-> "Ordforstaelse", options |-> <<"A", "B", "C", "D", "E">>],
     LAS |-> [name |-> "Lasforstaelse", options |-> <<"A", "B", "C", "D">>],
     MEK |-> [name |-> "Meningskomplettering", options |-> <<"A", "B", "C", "D">>]]

\* {**SECTIONS_KVANT, **SECTIONS_VERBAL}
SECTIONS ==
    [c \in DOMAIN SECTIONS_KVANT \cup DOMAIN SECTIONS_VERBAL |->
        IF c \in DOMAIN SECTIONS_VERBAL THEN SECTIONS_VERBAL[c] ELSE SECTIONS_KVANT[c]]

\* the three tables as they are when the module has been imported
InitialTables ==
    [SECTIONS_KVANT |-> SECTIONS_KVANT, SECTIONS_VERBAL |-> SECTIONS_VERBAL,
     SECTIONS |-> SECTIONS]

\* SECTIONS.get(section, {}).get("options", "ABCD")
expected_letters(section) ==
    IF section \in DOMAIN tables.SECTIONS THEN tables.SECTIONS[section].options
    ELSE <<"A", "B", "C", "D">>

\* SECTIONS.get(section, {}).get("name", "Unknown")
section_name(section) ==
    IF section \in DOMAIN tables.SECTIONS THEN tables.SECTIONS[section].name
    ELSE "Unknown"

(***************************************************************************)
(* normalize_letter                                                        *)
(***************************************************************************)
\* a lookup whose value for the Cyrillic Ve is itself a key of the lookup
normalize_letter_chained(c) ==
    CASE c \in {"CYR_A", "cyr_a"} -> "A"
      [] c = "CYR_BE" -> "B"
      [] c = "CYR_VE" -> "CYR_BE"
      [] c \in {"CYR_ES", "cyr_es"} -> "C"
      [] c = "CYR_DE" -> "D"
      [] c \in {"CYR_IE", "cyr_ie"} -> "E"
      [] c = "GR_ALPHA" -> "A"
      [] c = "GR_BETA" -> "B"
      [] c = "GR_EPSILON" -> "E"
      [] OTHER -> c

normalize_letter(c) ==
    CASE c \in {"CYR_A", "cyr_a"} -> "A"
      [] c = "CYR_BE" -> "B"
      [] c = "CYR_VE" -> "B"
      [] c \in {"CYR_ES", "cyr_es"} -> "C"
      [] c = "CYR_DE" -> "D"
      [] c \in {"CYR_IE", "cyr_ie"} -> "E"
      [] c = "GR_ALPHA" -> "A"
      [] c = "GR_BETA" -> "B"
      [] c = "GR_EPSILON" -> "E"
      [] OTHER -> c

\* the keys of normalize_letter's mapping
MappingKeys == {"CYR_A", "cyr_a", "CYR_BE", "CYR_VE", "CYR_ES", "cyr_es", "CYR_DE",
                "CYR_IE", "cyr_ie", "GR_ALPHA", "GR_BETA", "GR_EPSILON"}

\* the character class [A-E...] built from OPTION_LETTER_CHARS
OPTION_LETTER_CHARS ==
    {"A", "B", "C", "D", "E", "CYR_A", "CYR_BE", "CYR_VE", "CYR_ES", "CYR_DE",
     "CYR_IE", "GR_ALPHA", "GR_BETA", "GR_EPSILON"}

(***************************************************************************)
(* clean_option_text                                                       *)
(***************************************************************************)
Bos == [t |-> "bos"]
WS == Cls(Whitespace)
Stars2 == Lit(<<"*", "*">>)
SupOpen == Lit(<<"<", "s", "u", "p", ">">>)
SupClose == Lit(<<"<", "/", "s", "u", "p", ">">>)

\* ^[-*]\s+
list_marker_pattern == Cat(<<Bos, Cls({"-", "*"}), Plus(WS)>>)

\* <sup>([^<]+)</sup>
sup_text_pattern == Cat(<<SupOpen, Grp(1, Plus(NotCls({"<"}))), SupClose>>)

\* strip(), then re.sub(r'^[-*]\s+', '', text), then
\* re.sub(r'<sup>([^<]+)</sup>', r'^\1', text)
clean_option_text(text) ==
    Bind(Strip(text), LAMBDA t1 :
    Bind(SubWith(list_marker_pattern, t1, <<>>), LAMBDA t2 :
    SubWith(sup_text_pattern, t2, LitT(<<"^">>) \o RefT(1))))

(***************************************************************************)
(* parse_options_from_block                                                *)
(***************************************************************************)
OptLetter == Grp(1, Cls(OPTION_LETTER_CHARS))

\* ^\s*[-*]\s*(?:\*\*)?([L])(?:\*\*)?\s+(.+?)$   (MULTILINE)
list_option_pattern ==
    Cat(<<Bol, Star(WS), Cls({"-", "*"}), Star(WS), Opt(Stars2), OptLetter, Opt(Stars2),
          Plus(WS), Grp(2, LazyPlus(Dot)), Eol>>)

\* ^(?:\*\*)?([L])(?:\*\*)?\s+(.+?)$   (MULTILINE)
bare_option_pattern ==
    Cat(<<Bol, Opt(Stars2), OptLetter, Opt(Stars2), Plus(WS), Grp(2, LazyPlus(Dot)), Eol>>)

\* (?:^|\n)\s*([L])\s*\n\s*\$\$(.*?)\$\$   (DOTALL)
math_block_pattern ==
    Cat(<<Alt(<<Bos, Ch("\n")>>), Star(WS), OptLetter, Star(WS), Ch("\n"), Star(WS),
          Lit(<<"$", "$">>), Grp(2, LazyStar(DotAll)), Lit(<<"$", "$">>)>>)

\* \$\$\s*([L])\s+\\qquad\s+(.*?)\$\$
inline_math_option ==
    Cat(<<Lit(<<"$", "$">>), Star(WS), OptLetter, Plus(WS),
          Lit(<<"\\", "q", "q", "u", "a", "d">>), Plus(WS),
          Grp(2, LazyStar(Dot)), Lit(<<"$", "$">>)>>)

\* (?:^|\n)\s*([L])\s*\n+\s*(!\[.*?\]\(.*?\))   (DOTALL)
image_option_pattern ==
    Cat(<<Alt(<<Bos, Ch("\n")>>), Star(WS), OptLetter, Star(WS), Plus(Ch("\n")), Star(WS),
          Grp(2, Cat(<<Ch("!"), Ch("["), LazyStar(DotAll), Ch("]"), Ch("("),
                       LazyStar(DotAll), Ch(")")>>))>>)

\* <sup>([L])</sup>\s*<sup>(\d+)</sup>\s*(\d+)
sup_option_pattern ==
    Cat(<<SupOpen, OptLetter, SupClose, Star(WS), SupOpen, Grp(2, Plus(Cls(Digits))),
          SupClose, Star(WS), Grp(3, Plus(Cls(Digits)))>>)

\* the words that make strategy 2 skip a line
SkipWords ==
    {<<"p", "r", "o", "b", "l", "e", "m", "l", "o_uml", "s", "n", "i", "n", "g">>,
     <<"j", "a_uml", "m", "f", "o_uml", "r", "e", "l", "s", "e", "r">>,
     <<"r", "e", "s", "o", "n", "e", "m", "a", "n", "g">>}

NumStrategies == 6

StrategyPattern(k) ==
    CASE k = 1 -> list_option_pattern
      [] k = 2 -> bare_option_pattern
      [] k = 3 -> math_block_pattern
      [] k = 4 -> inline_math_option
      [] k = 5 -> image_option_pattern
      [] k = 6 -> sup_option_pattern

\* the letter and the text a strategy takes from its match m
Candidate(k, block_text, m) ==
    [letter |-> Strip(Group(block_text, m, 1))[1],
     text |-> IF k = 6
              THEN Group(block_text, m, 3) \o <<"/">> \o Group(block_text, m, 2)
              ELSE Strip(Group(block_text, m, 2))]

\* strategy 2: `if any(skip in text for skip in [...]): continue`
Skipped(k, c) == k = 2 /\ \E w \in SkipWords : Contains(c.text, w)

CandidatesOf(k, block_text, ms) ==
    SelectSeq(AsSeq([n \in 1..Len(ms) |-> Candidate(k, block_text, ms[n])]),
              LAMBDA c : ~Skipped(k, c))

\* the (letter, text) pairs strategy k hands to add_option, in match order
Candidates(k, block_text) == CandidatesOf(k, block_text, FindIter(StrategyPattern(k), block_text))

\* `x in s` for a one-character x and a string s
InStr(x, s) == \E i \in 1..Len(s) : s[i] = x

\* add_option's test `letter in found_letters or letter not in expected_letters`
\* on the normalized letter; st is [options, found_letters]
Rejected(st, section, l) ==
    normalize_letter(l) \in st.found_letters
        \/ ~InStr(normalize_letter(l), expected_letters(section))

\* add_option's append and found_letters.add
Accepted(st, l, text) ==
    [options |-> Append(st.options,
                        [letter |-> normalize_letter(l), text |-> clean_option_text(text)]),
     found_letters |-> st.found_letters \cup {normalize_letter(l)}]

\* an add_option that appends without its test
add_option_unchecked(st, section, l, text) == Accepted(st, l, text)

\* an add_option that lets a later candidate rewrite the text recorded for its letter
add_option_replacing(st, section, l, text) ==
    IF ~InStr(normalize_letter(l), expected_letters(section)) THEN st
    ELSE IF normalize_letter(l) \in st.found_letters
    THEN [st EXCEPT !.options =
            AsSeq([i \in 1..Len(st.options) |->
                IF st.options[i].letter = normalize_letter(l)
                THEN [letter |-> normalize_letter(l), text |-> clean_option_text(text)]
                ELSE st.options[i]])]
    ELSE Accepted(st, l, text)

\* add_option: the lists after the call
add_option(st, section, l, text) ==
    IF Rejected(st, section, l) THEN st ELSE Accepted(st, l, text)

\* whether strategy k is entered with found_letters as it is
StrategyRuns(k, found, section) ==
    k = 1 \/ Cardinality(found) < Len(expected_letters(section))

\* letter_order.get(letter, 99)
letter_order(l) ==
    CASE l = "A" -> 0 [] l = "B" -> 1 [] l = "C" -> 2 [] l = "D" -> 3 [] l = "E" -> 4
      [] OTHER -> 99

\* list.sort(key=...): stable
SortByLetter(opts) ==
    IF opts = <<>> THEN <<>>
    ELSE Flatten(AsSeq([n \in 1..6 |->
        SelectSeq(opts, LAMBDA o : letter_order(o.letter) = (IF n = 6 THEN 99 ELSE n - 1))]))

\* a strategy's loop: add_option on each candidate in turn
RECURSIVE AddAll(_, _, _)
AddAll(st, section, cs) ==
    IF cs = <<>> THEN st
    ELSE IF Rejected(st, section, Head(cs).letter) THEN AddAll(st, section, Tail(cs))
    ELSE AddAll(Accepted(st, Head(cs).letter, Head(cs).text), section, Tail(cs))

RECURSIVE RunStrategies(_, _, _, _)
RunStrategies(k, st, block_text, section) ==
    IF k > NumStrategies THEN st
    ELSE IF StrategyRuns(k, st.found_letters, section)
    THEN RunStrategies(k + 1, AddAll(st, section, Candidates(k, block_text)),
                       block_text, section)
    ELSE RunStrategies(k + 1, st, block_text, section)

parse_options_from_block(block_text, section) ==
    SortByLetter(RunStrategies(1, [options |-> <<>>, found_letters |-> {}],
                               block_text, section).options)

(***************************************************************************)
(* extract_images                                                          *)
(***************************************************************************)
\* !\[([^\]]*)\]\(([^)]+)\)
image_pattern ==
    Cat(<<Ch("!"), Ch("["), Grp(1, Star(NotCls({"]"}))), Ch("]"), Ch("("),
          Grp(2, Plus(NotCls({")"}))), Ch(")")>>)

ImagesOf(text, ms) ==
    AsSeq([n \in 1..Len(ms) |->
        [alt_text |-> Group(text, ms[n], 1), filename |-> Group(text, ms[n], 2)]])

extract_images(text) == ImagesOf(text, FindIter(image_pattern, text))

(***************************************************************************)
(* extract_question_text                                                   *)
(***************************************************************************)
\* ^(?:[-*]\s*)?(?:#{1,4}\s*)?(?:\*\*)?(\d{1,2})\.(?:\*\*)?\s*   (count=1)
number_prefix_pattern ==
    Cat(<<Bos,
          Opt(Cat(<<Cls({"-", "*"}), Star(WS)>>)),
          Opt(Cat(<<Rep(Ch("#"), 1, 4), Star(WS)>>)),
          Opt(Stars2),
          Grp(1, Rep(Cls(Digits), 1, 2)),
          Ch("."),
          Opt(Stars2),
          Star(WS)>>)

\* re.sub(pattern, '', s, count=1)
CutMatch(s, m) == IF m.s = 0 THEN s ELSE Slice(s, 1, m.s) \o Slice(s, m.e, Len(s) + 1)

RemoveFirst(r, s) == CutMatch(s, Search(r, s, 1))

\* reverse_map.get(first_letter, [first_letter])
reverse_map(l) ==
    CASE l = "A" -> <<"A", "CYR_A", "GR_ALPHA">>
      [] l = "B" -> <<"B", "CYR_VE", "GR_BETA">>
      [] l = "C" -> <<"C", "CYR_ES">>
      [] l = "D" -> <<"D">>
      [] l = "E" -> <<"E", "GR_EPSILON">>
      [] OTHER -> <<l>>

\* the three patterns searched for the variant lv (MULTILINE)
first_option_patterns(lv) ==
    <<Cat(<<Bol, Star(WS), Cls({"-", "*"}), Star(WS), Opt(Stars2), Ch(lv), Opt(Stars2), WS>>),
      Cat(<<Bol, Opt(Stars2), Ch(lv), Opt(Stars2), WS>>),
      Cat(<<Lit(<<"$", "$">>), Star(WS), Ch(lv), Plus(WS),
            Lit(<<"\\", "q", "q", "u", "a", "d">>)>>)>>

\* the smallest match.start() over the variants and patterns, len(text) when
\* nothing matches (0-based, as in the code)
SmallestStart(text, starts) ==
    IF starts = {} THEN Len(text)
    ELSE (CHOOSE p \in starts : \A q \in starts : p <= q) - 1

earliest_pos(text, first_letter) ==
    SmallestStart(text,
        {Search(first_option_patterns(lv)[k], text, 1).s :
            lv \in {reverse_map(first_letter)[v] : v \in 1..Len(reverse_map(first_letter))},
            k \in 1..3} \ {0})

\* ^#+\s*   (MULTILINE)
heading_marker_pattern == Cat(<<Bol, Plus(Ch("#")), Star(WS)>>)

\* text[:earliest_pos].strip() when there are options, else text.strip()
BeforeOptions(text, opts) ==
    IF opts # <<>>
    THEN Strip(Slice(text, 1, earliest_pos(text, opts[1].letter) + 1))
    ELSE Strip(text)

extract_question_text(block_text, opts, q_num) ==
    Bind(RemoveFirst(number_prefix_pattern, block_text), LAMBDA text :
    Bind(BeforeOptions(text, opts), LAMBDA question_text :
    SubWith(heading_marker_pattern, question_text, <<>>)))

(***************************************************************************)
(* detect_issues.  A flag is the sequence of the pieces of its text: the   *)
(* constant parts of the message and the characters of the formatted       *)
(* values.                                                                 *)
(***************************************************************************)
\* " ".join(texts)
RECURSIVE JoinSpace(_)
JoinSpace(ts) ==
    IF ts = <<>> THEN <<>>
    ELSE IF Len(ts) = 1 THEN ts[1]
    ELSE ts[1] \o <<" ">> \o JoinSpace(Tail(ts))

Found(r, s) == Search(r, s, 1).s # 0

LowerAZ == Cls(LatinLower)
DigitsPlus == Plus(Cls(Digits))

FLAG_GARBLED_SUPERSCRIPT ==
    <<"GARBLED_SUPERSCRIPT", ": Contains <sup> tags suggesting broken fraction/exponent rendering">>
FLAG_STRAY_DOLLAR_SIGN ==
    <<"STRAY_DOLLAR_SIGN", ": Contains stray $ suggesting broken math notation">>
FLAG_POSSIBLE_MISSING_OPERATOR ==
    <<"POSSIBLE_MISSING_OPERATOR", ": Adjacent terms may be missing an operator">>
FLAG_GARBLED_EQUATION == <<"GARBLED_EQUATION", ": Equation appears mangled">>
FLAG_CYRILLIC_LETTERS ==
    <<"CYRILLIC_LETTERS", ": May contain Cyrillic VE/ES instead of Latin B/C">>
FLAG_EMPTY_OPTION(l) == <<"EMPTY_OPTION", ": Option ", l, " appears empty">>
FLAG_OPTION_COUNT_MISMATCH(expected, found) ==
    <<"OPTION_COUNT_MISMATCH", ": ", "Expected ">> \o IntToStr(expected)
        \o <<" options, ", "found ">> \o IntToStr(found)

\* re.sub(r'[\s\$\\]', '', opt_text)
Cleaned(txt) == SelectSeq(txt, LAMBDA c : c \notin Whitespace \cup {"$", "\\"})

\* (?<!\$)\$(?!\$)
lone_dollar_pattern == Cat(<<NotBehind({"$"}), Ch("$"), NotAhead(Ch("$"))>>)

\* \$[^$]+\$
dollar_pair_pattern == Cat(<<Ch("$"), Plus(NotCls({"$"})), Ch("$")>>)

\* \d+[a-z]\s+\d+[a-z](?!\w)
adjacent_terms_pattern ==
    Cat(<<DigitsPlus, LowerAZ, Plus(WS), DigitsPlus, LowerAZ, NotAhead(Cls(WordChars))>>)

\* [a-z]\s*<sup>\d+</sup>\s*=\s*[-+]?\s*<sup>
garbled_equation_pattern ==
    Cat(<<LowerAZ, Star(WS), SupOpen, DigitsPlus, SupClose, Star(WS),
          Ch("="), Star(WS), Opt(Cls({"-", "+"})), Star(WS), SupOpen>>)

\* [VE ES](?=\s)
cyrillic_pattern == Cat(<<Cls({"CYR_VE", "CYR_ES"}), Ahead(WS)>>)

\* the flags of the checks on full_text, then one per empty option
IssuesOf(opts, full_text) ==
    (IF Found(SupOpen, full_text) THEN <<FLAG_GARBLED_SUPERSCRIPT>> ELSE <<>>)
    \o (IF Found(lone_dollar_pattern, full_text) /\ ~Found(dollar_pair_pattern, full_text)
        THEN <<FLAG_STRAY_DOLLAR_SIGN>> ELSE <<>>)
    \o (IF Found(adjacent_terms_pattern, full_text)
        THEN <<FLAG_POSSIBLE_MISSING_OPERATOR>> ELSE <<>>)
    \o (IF Found(garbled_equation_pattern, full_text)
        THEN <<FLAG_GARBLED_EQUATION>> ELSE <<>>)
    \o (IF Found(cyrillic_pattern, full_text) THEN <<FLAG_CYRILLIC_LETTERS>> ELSE <<>>)
    \o Flatten(AsSeq([n \in 1..Len(opts) |->
            IF Len(Cleaned(opts[n].text)) = 0
            THEN <<FLAG_EMPTY_OPTION(opts[n].letter)>> ELSE <<>>]))

\* q_text + " ".join(opt["text"] for opt in options)
FullText(question_text, opts) ==
    question_text \o JoinSpace(AsSeq([n \in 1..Len(opts) |-> opts[n].text]))

detect_issues(question) ==
    IssuesOf(question.options, FullText(question.question_text, question.options))

(***************************************************************************)
(* parse_question_block                                                    *)
(***************************************************************************)
Eos == [t |-> "eos"]
Kvantitet == Cat(<<Cls({"K", "k"}), Lit(<<"v", "a", "n", "t", "i", "t", "e", "t">>)>>)

\* [Kk]vantitet\s*I[:\s]+(.+?)(?=\n|[Kk]vantitet\s*II)   (DOTALL)
kvantitet_I_pattern ==
    Cat(<<Kvantitet, Star(WS), Ch("I"), Plus(Cls(Whitespace \cup {":"})),
          Grp(1, LazyPlus(DotAll)),
          Ahead(Alt(<<Ch("\n"), Cat(<<Kvantitet, Star(WS), Lit(<<"I", "I">>)>>)>>))>>)

\* [Kk]vantitet\s*II[:\s]+(.+?)(?=\n\s*[-*]?\s*A\s|\n\n|$)   (DOTALL)
kvantitet_II_pattern ==
    Cat(<<Kvantitet, Star(WS), Lit(<<"I", "I">>), Plus(Cls(Whitespace \cup {":"})),
          Grp(1, LazyPlus(DotAll)),
          Ahead(Alt(<<Cat(<<Ch("\n"), Star(WS), Opt(Cls({"-", "*"})), Star(WS), Ch("A"), WS>>),
                      Lit(<<"\n", "\n">>),
                      Eos>>))>>)

\* \((\d)\)\s+(.+?)(?=\(\d\)|\n\s*#{1,4}|\n\s*Tillracklig|$)   (DOTALL)
stmt_pattern ==
    Cat(<<Ch("("), Grp(1, Cls(Digits)), Ch(")"), Plus(WS), Grp(2, LazyPlus(DotAll)),
          Ahead(Alt(<<Cat(<<Ch("("), Cls(Digits), Ch(")")>>),
                      Cat(<<Ch("\n"), Star(WS), Rep(Ch("#"), 1, 4)>>),
                      Cat(<<Ch("\n"), Star(WS),
                            Lit(<<"T", "i", "l", "l", "r", "a_uml", "c", "k", "l", "i", "g">>)>>),
                      Eos>>))>>)

\* group 1 of the match m of s, stripped; the empty string when no match
GroupStripped(s, m) == IF m.s = 0 THEN <<>> ELSE Strip(Group(s, m, 1))

FirstGroupStripped(r, s) == GroupStripped(s, Search(r, s, 1))

\* the statements of a NOG question, one per match
StatementsOf(question_text, sms) ==
    AsSeq([n \in 1..Len(sms) |->
        [number |-> ParseInt(Group(question_text, sms[n], 1)),
         text |-> Strip(Group(question_text, sms[n], 2))]])

\* the dict `question` as it is handed to detect_issues: the sub-fields are
\* present only when they were found
QuestionDict(q_num, section, question_text, opts, images, kvantitet_i, kvantitet_ii, statements) ==
    [question_number |-> q_num,
     section |-> section,
     section_name |-> section_name(section),
     question_text |-> question_text,
     options |-> opts,
     images |-> images,
     flags |-> <<>>]
    @@ (IF kvantitet_i # <<>> THEN [kvantitet_I |-> kvantitet_i] ELSE <<>>)
    @@ (IF kvantitet_ii # <<>> THEN [kvantitet_II |-> kvantitet_ii] ELSE <<>>)
    @@ (IF statements # <<>> THEN [statements |-> statements] ELSE <<>>)

\* the section-specific parsing: Kvantitet I and II for KVA, statements for NOG
WithSubFields(q_num, section, question_text, opts, images) ==
    QuestionDict(q_num, section, question_text, opts, images,
        IF section = "KVA" THEN FirstGroupStripped(kvantitet_I_pattern, question_text)
        ELSE <<>>,
        IF section = "KVA" THEN FirstGroupStripped(kvantitet_II_pattern, question_text)
        ELSE <<>>,
        StatementsOf(question_text,
            IF section = "NOG" THEN FindIter(stmt_pattern, question_text) ELSE <<>>))

\* a record built without the option count check
WithFlags_unchecked(question, flags, expected_count) == [question EXCEPT !.flags = flags]

\* question["flags"] = flags, after the option count check has appended its flag
WithFlags(question, flags, expected_count) ==
    [question EXCEPT !.flags =
        IF Len(question.options) # expected_count
        THEN Append(flags, FLAG_OPTION_COUNT_MISMATCH(expected_count, Len(question.options)))
        ELSE flags]

parse_question_block(q_num, block_text, section) ==
    Bind(extract_images(block_text), LAMBDA images :
    Bind(parse_options_from_block(block_text, section), LAMBDA opts :
    Bind(extract_question_text(block_text, opts, q_num), LAMBDA question_text :
    Bind(WithSubFields(q_num, section, question_text, opts, images), LAMBDA question :
    Bind(detect_issues(question), LAMBDA flags :
    WithFlags(question, flags, Len(expected_letters(section))))))))

(***************************************************************************)
(* parse_section_ranges and determine_section.  A range dict is the        *)
(* sequence of its items in insertion order.                               *)
(***************************************************************************)
\* the characters of a section code
Spelling(code) ==
    CASE code = "XYZ" -> <<"X", "Y", "Z">>
      [] code = "KVA" -> <<"K", "V", "A">>
      [] code = "NOG" -> <<"N", "O", "G">>
      [] code = "DTK" -> <<"D", "T", "K">>
      [] code = "ORD" -> <<"O", "R", "D">>
      [] code = "LAS" -> <<"L", "A_UML", "S">>
      [] code = "MEK" -> <<"M", "E", "K">>

\* str.upper() on one character
UpperChar(c) ==
    LET lower == <<"a", "b", "c", "d", "e", "f", "g", "h", "i", "j", "k", "l", "m",
                   "n", "o", "p", "q", "r", "s", "t", "u", "v", "w", "x", "y", "z">>
        upper == <<"A", "B", "C", "D", "E", "F", "G", "H", "I", "J", "K", "L", "M",
                   "N", "O", "P", "Q", "R", "S", "T", "U", "V", "W", "X", "Y", "Z">>
    IN  CASE c \in LatinLower -> upper[CHOOSE i \in 1..26 : lower[i] = c]
          [] c = "a_uml" -> "A_UML"
          [] c = "o_uml" -> "O_UML"
          [] c = "cyr_a" -> "CYR_A"
          [] c = "cyr_es" -> "CYR_ES"
          [] c = "cyr_ie" -> "CYR_IE"
          [] OTHER -> c

Upper(s) == AsSeq([i \in 1..Len(s) |-> UpperChar(s[i])])

DefaultRangesVerbal ==
    <<[code |-> "ORD", start |-> 1, end |-> 10],
      [code |-> "LAS", start |-> 11, end |-> 30],
      [code |-> "MEK", start |-> 31, end |-> 40]>>

DefaultRangesKvant ==
    <<[code |-> "XYZ", start |-> 1, end |-> 12],
      [code |-> "KVA", start |-> 13, end |-> 22],
      [code |-> "NOG", start |-> 23, end |-> 28],
      [code |-> "DTK", start |-> 29, end |-> 40]>>

\* \|\s*(\w+)\s*\|\s*(\d+)\s*\|\s*(\d+)\s*[EN_DASH-]\s*(\d+)\s*\|
table_pattern ==
    Cat(<<Ch("|"), Star(WS), Grp(1, Plus(Cls(WordChars \cup {"a_uml", "o_uml", "A_UML", "O_UML"}))),
          Star(WS), Ch("|"), Star(WS), Grp(2, DigitsPlus), Star(WS), Ch("|"), Star(WS),
          Grp(3, DigitsPlus), Star(WS), Cls({"EN_DASH", "-"}), Star(WS), Grp(4, DigitsPlus),
          Star(WS), Ch("|")>>)

\* ranges[section] = (start, end)
SetRange(ranges, code, start, end) ==
    IF \E i \in 1..Len(ranges) : ranges[i].code = code
    THEN AsSeq([i \in 1..Len(ranges) |->
            IF ranges[i].code = code THEN [code |-> code, start |-> start, end |-> end]
            ELSE ranges[i]])
    ELSE Append(ranges, [code |-> code, start |-> start, end |-> end])

\* a loop over the rows in which the first row of a code wins
RECURSIVE ApplyRows_first_wins(_, _, _)
ApplyRows_first_wins(ranges, text, ms) ==
    IF ms = <<>> THEN ranges
    ELSE LET section == Upper(Group(text, ms[Len(ms)], 1))
             start == ParseInt(Group(text, ms[Len(ms)], 3))
             end == ParseInt(Group(text, ms[Len(ms)], 4))
             known == {c \in DOMAIN tables.SECTIONS : Spelling(c) = section}
         IN  ApplyRows_first_wins(IF known # {}
                                  THEN SetRange(ranges, CHOOSE c \in known : TRUE, start, end)
                                  ELSE ranges,
                                  text, SubSeq(ms, 1, Len(ms) - 1))

RECURSIVE ApplyRows(_, _, _)
ApplyRows(ranges, text, ms) ==
    IF ms = <<>> THEN ranges
    ELSE LET section == Upper(Group(text, ms[1], 1))
             start == ParseInt(Group(text, ms[1], 3))
             end == ParseInt(Group(text, ms[1], 4))
             known == {c \in DOMAIN tables.SECTIONS : Spelling(c) = section}
         IN  ApplyRows(IF known # {}
                       THEN SetRange(ranges, CHOOSE c \in known : TRUE, start, end)
                       ELSE ranges,
                       text, Tail(ms))

parse_section_ranges(text, provpass_type) ==
    ApplyRows(IF provpass_type = "verbal" THEN DefaultRangesVerbal ELSE DefaultRangesKvant,
              text, FindIter(table_pattern, text))

\* a determine_section whose ranges exclude their end
determine_section_excluding_end(question_num, section_ranges) ==
    LET hits == {i \in 1..Len(section_ranges) :
                    /\ section_ranges[i].start <= question_num
                    /\ question_num < section_ranges[i].end}
    IN  IF hits = {} THEN "UNKNOWN"
        ELSE section_ranges[CHOOSE i \in hits : \A j \in hits : i <= j].code

determine_section(question_num, section_ranges) ==
    LET hits == {i \in 1..Len(section_ranges) :
                    /\ section_ranges[i].start <= question_num
                    /\ question_num <= section_ranges[i].end}
    IN  IF hits = {} THEN "UNKNOWN"
        ELSE section_ranges[CHOOSE i \in hits : \A j \in hits : i <= j].code

(***************************************************************************)
(* parse_markdown.  An optional value (None or a value) is the empty       *)
(* sequence or the one-element sequence of the value.                      *)
(***************************************************************************)
None == <<>>
Some(v) == <<v>>

\* (\d{4}-\d{2}-\d{2})
date_pattern ==
    Grp(1, Cat(<<Rep(Cls(Digits), 4, 4), Ch("-"), Rep(Cls(Digits), 2, 2), Ch("-"),
                 Rep(Cls(Digits), 2, 2)>>))

\* Provpass\s*(\d+)
provpass_pattern ==
    Cat(<<Lit(<<"P", "r", "o", "v", "p", "a", "s", "s">>), Star(WS), Grp(1, DigitsPlus)>>)

\* `not exam_date`: None and "" are falsy
FalsyStr(opt) == opt = None \/ opt[1] = <<>>

\* `not provpass`: None and 0 are falsy
FalsyInt(opt) == opt = None \/ opt[1] = 0

RangeOf(section_ranges, code) ==
    LET hits == {i \in 1..Len(section_ranges) : section_ranges[i].code = code}
    IN  IF hits = {} THEN <<>>
        ELSE LET r == section_ranges[CHOOSE i \in hits : TRUE] IN <<r.start, r.end>>

\* exam_date after `if date_match and not exam_date`
DateFound(text, exam_date, date_match) ==
    IF date_match.s # 0 /\ FalsyStr(exam_date) THEN Some(Group(text, date_match, 1))
    ELSE exam_date

\* provpass after `if provpass_match and not provpass`
ProvpassFound(text, provpass, provpass_match) ==
    IF provpass_match.s # 0 /\ FalsyInt(provpass)
    THEN Some(ParseInt(Group(text, provpass_match, 1)))
    ELSE provpass

\* the loop over the question blocks
QuestionsOf(question_blocks, section_ranges) ==
    AsSeq([i \in 1..Len(question_blocks) |->
        parse_question_block(
            question_blocks[i].q_num, question_blocks[i].block_text,
            determine_section(question_blocks[i].q_num, section_ranges))])

\* SECTIONS_VERBAL if provpass_type == "verbal" else SECTIONS_KVANT
sections_for_meta(provpass_type) ==
    IF provpass_type = "verbal" THEN tables.SECTIONS_VERBAL ELSE tables.SECTIONS_KVANT

\* a result whose questions_with_flags counts every question
ResultOf_counting_all(exam_date, provpass, provpass_type, section_ranges, questions) ==
    [metadata |->
        [exam_date |-> exam_date,
         provpass |-> provpass,
         provpass_type |-> provpass_type,
         total_questions |-> Len(questions),
         questions_with_images |-> Len(SelectSeq(questions, LAMBDA q : q.images # <<>>)),
         questions_with_flags |-> Len(questions),
         sections |->
            [c \in DOMAIN sections_for_meta(provpass_type) |->
                [name |-> sections_for_meta(provpass_type)[c].name,
                 range |-> RangeOf(section_ranges, c),
                 question_count |-> Len(SelectSeq(questions, LAMBDA q : q.section = c))]]],
     questions |-> questions]

\* the dict returned: the metadata with its summary counts, and the questions
ResultOf(exam_date, provpass, provpass_type, section_ranges, questions) ==
    [metadata |->
        [exam_date |-> exam_date,
         provpass |-> provpass,
         provpass_type |-> provpass_type,
         total_questions |-> Len(questions),
         questions_with_images |-> Len(SelectSeq(questions, LAMBDA q : q.images # <<>>)),
         questions_with_flags |-> Len(SelectSeq(questions, LAMBDA q : q.flags # <<>>)),
         sections |->
            [c \in DOMAIN sections_for_meta(provpass_type) |->
                [name |-> sections_for_meta(provpass_type)[c].name,
                 range |-> RangeOf(section_ranges, c),
                 question_count |-> Len(SelectSeq(questions, LAMBDA q : q.section = c))]]],
     questions |-> questions]

parse_markdown(text, exam_date, provpass, provpass_type) ==
    Bind(Search(date_pattern, text, 1), LAMBDA date_match :
    Bind(Search(provpass_pattern, text, 1), LAMBDA provpass_match :
    Bind(parse_section_ranges(text, provpass_type), LAMBDA section_ranges :
    Bind(split_into_questions(text), LAMBDA question_blocks :
    Bind(QuestionsOf(question_blocks, section_ranges), LAMBDA questions :
    ResultOf(DateFound(text, exam_date, date_match),
             ProvpassFound(text, provpass, provpass_match),
             provpass_type, section_ranges, questions))))))

(***************************************************************************)
(* pipeline.py.  A JSON file is None when it does not exist, else Some of  *)
(* the value json.dumps wrote: dicts are records, lists and tuples are     *)
(* sequences, strings are sequences of characters.  An override file is a  *)
(* function from its keys (strings) to its entries (records).              *)
(***************************************************************************)
\* f"{exam_date}_provpass-{provpass_num}"
make_key(exam_date, provpass_num) ==
    exam_date \o <<"_", "p", "r", "o", "v", "p", "a", "s", "s", "-">> \o IntToStr(provpass_num)

\* entry["key"], as discover builds it
KeyOf(entry) == make_key(entry.exam_date[1], entry.provpass[1])

\* d.get(field, default)
Get(d, field, default) == IF field \in DOMAIN d THEN d[field] ELSE default

\* d[field] = value
Put(d, field, value) ==
    [f \in DOMAIN d \cup {field} |-> IF f = field THEN value ELSE d[f]]

\* phase_parse: the dict parse_markdown returns, which is also what is dumped
phase_parse(entry, text) ==
    parse_markdown(text, entry.exam_date, entry.provpass, entry.provpass_type)

\* the fields phase_merge_overrides copies, in the order of its loop
MergeFields ==
    <<"question_text", "options", "images", "flags", "kvantitet_I", "kvantitet_II",
      "statements">>

\* the loop `for field in (...)`: if field in override: q[field] = override[field]
RECURSIVE MergeFieldsFrom(_, _, _)
MergeFieldsFrom(q, override, k) ==
    IF k > Len(MergeFields) THEN q
    ELSE IF MergeFields[k] \in DOMAIN override
    THEN MergeFieldsFrom(Put(q, MergeFields[k], override[MergeFields[k]]), override, k + 1)
    ELSE MergeFieldsFrom(q, override, k + 1)

\* a marking that does not look at the entry's reviewed value
MarkReviewed_always(q, override) == Put(q, "reviewed", TRUE)

\* if override.get("reviewed"): q["reviewed"] = True
MarkReviewed(q, override) ==
    IF Get(override, "reviewed", FALSE) THEN Put(q, "reviewed", TRUE) ELSE q

\* a merge that also empties the flags of every record it patches
MergeQuestion_clearing_flags(q, overrides) ==
    IF IntToStr(q.question_number) \notin DOMAIN overrides THEN q
    ELSE Put(MergeFieldsFrom(q, overrides[IntToStr(q.question_number)], 1), "flags", <<>>)

\* the body of the loop over the questions
MergeQuestion(q, overrides) ==
    IF IntToStr(q.question_number) \notin DOMAIN overrides THEN q
    ELSE MarkReviewed(MergeFieldsFrom(q, overrides[IntToStr(q.question_number)], 1),
                      overrides[IntToStr(q.question_number)])

MergeQuestions(questions, overrides) ==
    AsSeq([i \in 1..Len(questions) |-> MergeQuestion(questions[i], overrides)])

\* a merge that counts the flagged records and the records with images again
phase_merge_overrides_recounting(override_file, parsed_data) ==
    IF override_file = None THEN parsed_data
    ELSE [parsed_data EXCEPT
            !.questions = MergeQuestions(parsed_data.questions, override_file[1]),
            !.metadata.questions_with_flags =
                Len(SelectSeq(MergeQuestions(parsed_data.questions, override_file[1]),
                              LAMBDA q : q.flags # <<>>)),
            !.metadata.questions_with_images =
                Len(SelectSeq(MergeQuestions(parsed_data.questions, override_file[1]),
                              LAMBDA q : q.images # <<>>))]

\* phase_merge_overrides: override_file is None or Some of the loaded overrides
phase_merge_overrides(override_file, parsed_data) ==
    IF override_file = None THEN parsed_data
    ELSE [parsed_data EXCEPT !.questions = MergeQuestions(parsed_data.questions, override_file[1])]

\* phase_copy_images: a directory is a function from file names, <<stem, suffix>>,
\* to sizes; a jpeg or png file is copied unless the destination has a file of
\* that name and size
Copied(src_dir, dst_dir) ==
    {n \in DOMAIN src_dir : /\ n[2] \in {"jpeg", "png"}
                            /\ (n \notin DOMAIN dst_dir \/ dst_dir[n] # src_dir[n])}

phase_copy_images(src_dir, dst_dir) ==
    [n \in DOMAIN dst_dir \cup Copied(src_dir, dst_dir) |->
        IF n \in Copied(src_dir, dst_dir) THEN src_dir[n] ELSE dst_dir[n]]

\* f"images/{entry['key']}/"
ImagePrefix(key) == <<"i", "m", "a", "g", "e", "s", "/">> \o key \o <<"/">>

StartsWith(s, prefix) == Len(s) >= Len(prefix) /\ SubSeq(s, 1, Len(prefix)) = prefix

\* !\[([^\]]*)\]\((?!images/)([^)]+)\)
inline_image_pattern ==
    Cat(<<Ch("!"), Ch("["), Grp(1, Star(NotCls({"]"}))), Ch("]"), Ch("("),
          NotAhead(Lit(<<"i", "m", "a", "g", "e", "s", "/">>)),
          Grp(2, Plus(NotCls({")"}))), Ch(")")>>)

\* rf"![\1]({prefix}\2)"
InlineImageRepl(prefix) ==
    LitT(<<"!", "[">>) \o RefT(1) \o LitT(<<"]", "(">> \o prefix) \o RefT(2) \o LitT(<<")">>)

RewriteText(text, prefix) == SubWith(inline_image_pattern, text, InlineImageRepl(prefix))

\* the loop over q.get("images", [])
RewriteImage(img, prefix) ==
    IF Get(img, "filename", <<>>) # <<>> /\ ~StartsWith(img.filename, prefix)
    THEN Put(img, "filename", prefix \o img.filename)
    ELSE img

\* the loop over q.get("options", [])
RewriteOption(opt, prefix) ==
    IF Get(opt, "text", <<>>) # <<>> THEN Put(opt, "text", RewriteText(opt.text, prefix))
    ELSE opt

RewriteImages(q, prefix) ==
    IF "images" \in DOMAIN q
    THEN Put(q, "images", AsSeq([i \in 1..Len(q.images) |-> RewriteImage(q.images[i], prefix)]))
    ELSE q

RewriteQuestionText(q, prefix) ==
    IF Get(q, "question_text", <<>>) # <<>>
    THEN Put(q, "question_text", RewriteText(q.question_text, prefix))
    ELSE q

RewriteOptions(q, prefix) ==
    IF "options" \in DOMAIN q
    THEN Put(q, "options", AsSeq([i \in 1..Len(q.options) |-> RewriteOption(q.options[i], prefix)]))
    ELSE q

RewriteQuestion(q, prefix) ==
    RewriteOptions(RewriteQuestionText(RewriteImages(q, prefix), prefix), prefix)

\* rewrite_image_paths: data as the in-place rewriting leaves it
rewrite_image_paths(key, d) ==
    IF "questions" \in DOMAIN d
    THEN Put(d, "questions",
             AsSeq([i \in 1..Len(d.questions) |-> RewriteQuestion(d.questions[i], ImagePrefix(key))]))
    ELSE d

\* a test that does not look at the reviewed marker
FlaggedUnreviewed_ignoring_reviewed(q) == Get(q, "flags", <<>>) # <<>>

\* q.get("flags") and not q.get("reviewed")
FlaggedUnreviewed(q) == Get(q, "flags", <<>>) # <<>> /\ ~Get(q, "reviewed", FALSE)

\* the loop of compute_status: needs_review at the first such question
RECURSIVE StatusFrom(_, _)
StatusFrom(questions, i) ==
    IF i > Len(questions) THEN "clean"
    ELSE IF FlaggedUnreviewed(questions[i]) THEN "needs_review"
    ELSE StatusFrom(questions, i + 1)

\* compute_status: final_file is None or Some of the loaded final output
compute_status(final_file) ==
    IF final_file = None THEN "not_processed"
    ELSE StatusFrom(Get(final_file[1], "questions", <<>>), 1)

(***************************************************************************)
(* Values of the variables a specification does not use                    *)
(***************************************************************************)
NoCall == [called |-> FALSE, letter |-> "", before |-> <<>>]
NoFiles == [parsed |-> None, overrides |-> None, final |-> None, images |-> <<>>]

NormIdle == letter = "" /\ norm = <<>>
OptIdle == /\ block = [text |-> <<>>, section |-> "UNKNOWN"]
           /\ strategy = 0
           /\ cands = <<>>
           /\ options = <<>>
           /\ found_letters = {}
           /\ last = NoCall
ParseIdle == result = None /\ runs = <<>> /\ the_ranges = None /\ the_blocks = None
DocIdle == md_text = <<>> /\ hints = [exam_date |-> None, provpass |-> None, provpass_type |-> "kvant"]
PipeIdle == files = NoFiles /\ data = None /\ merge_only = FALSE /\ status = "none"

(***************************************************************************)
(* normalize_letter applied to a character, and again to what it returned  *)
(***************************************************************************)
MaxNormCalls == 2

\* the characters given: every letter and digit of the alphabet and some others
GivenChars == WordChars \cup {"a_uml", "o_uml", "-", "*", " ", "\n", "$"}

InitNormalize ==
    /\ phase = "normalize"
    /\ tables = InitialTables
    /\ letter \in GivenChars
    /\ norm = <<>>
    /\ OptIdle /\ ParseIdle /\ DocIdle /\ PipeIdle

Normalize ==
    /\ phase = "normalize"
    /\ Len(norm) < MaxNormCalls
    /\ norm' = Append(norm, normalize_letter(IF norm = <<>> THEN letter ELSE norm[Len(norm)]))
    /\ UNCHANGED <<phase, tables, letter, optVars, parseVars, docVars, pipeVars>>

NextNormalize == Normalize

SpecNormalize == InitNormalize /\ [][NextNormalize]_vars

\* C4: normalize_letter returns a value for every character; a canonical letter
\* A-E and a character that is no key of the lookup come back unchanged, and
\* normalizing what normalize_letter returned changes nothing.
C4_NormalizeIdempotent ==
    phase = "normalize" =>
        /\ Len(norm) >= 1 =>
              /\ letter \in {"A", "B", "C", "D", "E"} => norm[1] = letter
              /\ letter \notin MappingKeys => norm[1] = letter
        /\ Len(norm) >= 2 => norm[2] = norm[1]

\* the Cyrillic Ve has been normalized to B, and B normalized again
C4_Witness ==
    phase = "normalize" /\ letter = "CYR_VE" /\ Len(norm) = 2 /\ norm[1] = "B"

(***************************************************************************)
(* parse_options_from_block, one add_option call at a time                 *)
(***************************************************************************)
MaxOptFragments == 3

OptFragments ==
    {<<"-", " ", "A", " ", "x", "\n", "-", " ", "B", " ", "y", "\n">>,
     <<"-", " ", "C", " ", "z", "\n", "-", " ", "D", " ", "w", "\n">>,
     <<"-", " ", "E", " ", "e", "\n">>,
     <<"-", " ", "CYR_VE", " ", "v", "\n">>,
     <<"B", " ", "u", "\n">>,
     <<"$", "$", "D", " ", "\\", "q", "q", "u", "a", "d", " ", "2", "$", "$", "\n">>,
     <<"<", "s", "u", "p", ">", "C", "<", "/", "s", "u", "p", ">",
       "<", "s", "u", "p", ">", "3", "<", "/", "s", "u", "p", ">", " ", "1", "\n">>}

\* the texts made of at most n fragments of F
RECURSIVE Texts(_, _)
Texts(F, n) ==
    IF n = 0 THEN {<<>>}
    ELSE LET shorter == Texts(F, n - 1)
         IN  shorter \cup {t \o f : t \in shorter, f \in F}

OptSections == {"XYZ", "NOG", "UNKNOWN"}

InitOptions ==
    /\ phase = "enter"
    /\ tables = InitialTables
    /\ block \in [text : Texts(OptFragments, MaxOptFragments), section : OptSections]
    /\ strategy = 1
    /\ cands = <<>>
    /\ options = <<>>
    /\ found_letters = {}
    /\ last = NoCall
    /\ NormIdle /\ ParseIdle /\ DocIdle /\ PipeIdle

\* the `if len(found_letters) < len(expected_letters)` before a strategy's loop
\* (strategy 1 has none), then the finditer of that strategy
EnterStrategy ==
    /\ phase = "enter"
    /\ StrategyRuns(strategy, found_letters, block.section)
    /\ cands' = Candidates(strategy, block.text)
    /\ phase' = "loop"
    /\ UNCHANGED <<tables, block, strategy, options, found_letters, last,
                   normVars, parseVars, docVars, pipeVars>>

AfterStrategy == IF strategy = NumStrategies THEN "sort" ELSE "enter"

SkipStrategy ==
    /\ phase = "enter"
    /\ ~StrategyRuns(strategy, found_letters, block.section)
    /\ strategy' = IF strategy = NumStrategies THEN strategy ELSE strategy + 1
    /\ phase' = AfterStrategy
    /\ UNCHANGED <<tables, block, cands, options, found_letters, last,
                   normVars, parseVars, docVars, pipeVars>>

\* one iteration of a strategy's loop: add_option on the next match
AddOption ==
    /\ phase = "loop"
    /\ cands # <<>>
    /\ LET st == add_option([options |-> options, found_letters |-> found_letters],
                            block.section, Head(cands).letter, Head(cands).text)
       IN  /\ options' = st.options
           /\ found_letters' = st.found_letters
    /\ last' = [called |-> TRUE, letter |-> Head(cands).letter, before |-> options]
    /\ cands' = Tail(cands)
    /\ UNCHANGED <<phase, tables, block, strategy, normVars, parseVars, docVars, pipeVars>>

EndStrategy ==
    /\ phase = "loop"
    /\ cands = <<>>
    /\ strategy' = IF strategy = NumStrategies THEN strategy ELSE strategy + 1
    /\ phase' = AfterStrategy
    /\ UNCHANGED <<tables, block, cands, options, found_letters, last,
                   normVars, parseVars, docVars, pipeVars>>

\* options.sort(...); return options
SortOptions ==
    /\ phase = "sort"
    /\ options' = SortByLetter(options)
    /\ phase' = "returned"
    /\ UNCHANGED <<tables, block, strategy, cands, found_letters, last,
                   normVars, parseVars, docVars, pipeVars>>

NextOptions == EnterStrategy \/ SkipStrategy \/ AddOption \/ EndStrategy \/ SortOptions

SpecOptions == InitOptions /\ [][NextOptions]_vars

\* the letters recorded in a list of options
LettersOf(opts) == {opts[i].letter : i \in 1..Len(opts)}

\* C2: at every state of the six-strategy loop the recorded options have pairwise
\* distinct letters, each one a letter of the block's expected alphabet (ABCD for
\* an unknown subsection), and after an add_option call on a candidate whose
\* normalized letter was already recorded or is outside that alphabet the option
\* list is what it was before the call.
C2_LettersUniqueAndExpected ==
    phase \in {"enter", "loop", "sort", "returned"} =>
        /\ \A i, j \in 1..Len(options) :
              options[i].letter = options[j].letter => i = j
        /\ \A i \in 1..Len(options) :
              InStr(options[i].letter, expected_letters(block.section))
        /\ (/\ phase = "loop"
            /\ last.called
            /\ \/ normalize_letter(last.letter) \in LettersOf(last.before)
               \/ ~InStr(normalize_letter(last.letter), expected_letters(block.section)))
           => options = last.before

\* add_option has just been called on a Cyrillic Ve when B was already recorded
C2_Witness ==
    /\ phase = "loop"
    /\ last.called
    /\ last.letter = "CYR_VE"
    /\ "B" \in LettersOf(last.before)
    /\ Len(options) >= 2

\* the candidates of all six strategies, in strategy order then match order
AllCandidates(block_text) ==
    Flatten(AsSeq([k \in 1..NumStrategies |-> Candidates(k, block_text)]))

\* the positions of the candidates whose normalized letter is l
PositionsOf(cs, l) == {n \in 1..Len(cs) : normalize_letter(cs[n].letter) = l}

\* the first candidate whose normalized letter is l
FirstCandidate(cs, l) == cs[CHOOSE n \in PositionsOf(cs, l) : \A m \in PositionsOf(cs, l) : n <= m]

\* every returned option carries the cleaned text of the first candidate of its letter
FirstCandidateWins(opts, cs) ==
    \A i \in 1..Len(opts) :
        /\ PositionsOf(cs, opts[i].letter) # {}
        /\ opts[i].text = clean_option_text(FirstCandidate(cs, opts[i].letter).text)

IsPrefix(s, t) == Len(s) <= Len(t) /\ \A i \in 1..Len(s) : s[i] = t[i]

\* C13: the strategies are reached in the order 1..6, strategy k >= 2 is entered
\* only while fewer letters than the expected alphabet has are recorded, no step
\* before the final sort removes or rewrites a recorded option, the sort keeps
\* the same options, no option is added once the expected count is reached, and
\* each returned option has the text of the first candidate of its letter in
\* strategy order then match order.
C13_StrategiesFillGaps ==
    /\ [][/\ strategy' \in {strategy, strategy + 1}
          /\ (EnterStrategy /\ strategy >= 2) =>
                Len(options) < Len(expected_letters(block.section))
          /\ phase' # "returned" => IsPrefix(options, options')
          /\ phase' = "returned" =>
                /\ Len(options') = Len(options)
                /\ \A i \in 1..Len(options) : \E j \in 1..Len(options') :
                        options'[j] = options[i]
          /\ Len(options) >= Len(expected_letters(block.section)) =>
                Len(options') = Len(options)]_vars
    /\ [](phase = "returned" => FirstCandidateWins(options, AllCandidates(block.text)))

\* strategy 1 recorded A and B, strategy 2 then met a bare B line: the returned
\* B keeps the text of the list item
C13_Witness ==
    /\ phase = "returned"
    /\ block.section = "XYZ"
    /\ block.text = <<"-", " ", "A", " ", "x", "\n", "-", " ", "B", " ", "y", "\n">>
                        \o <<"B", " ", "u", "\n">>
    /\ Len(options) = 2
    /\ options[2] = [letter |-> "B", text |-> <<"y">>]
    /\ last.called /\ last.letter = "B" /\ last.before = options

(***************************************************************************)
(* parse_markdown on a document                                            *)
(***************************************************************************)
MaxFragments == 3
MaxRuns == 2

DocFragments ==
    {<<"1", ".", " ", "q", "\n">>,
     <<"2", ".", " ", "r", "\n">>,
     <<"2", "3", ".", " ", "s", "\n">>,
     <<"-", " ", "A", " ", "x", "\n", "-", " ", "B", " ", "y", "\n">>,
     <<"-", " ", "C", " ", "z", "\n", "-", " ", "D", " ", "w", "\n">>,
     <<"!", "[", "a", "]", "(", "p", ")", "\n">>}

HintChoices ==
    {[exam_date |-> None, provpass |-> None, provpass_type |-> "kvant"],
     [exam_date |-> Some(<<"2", "0", "2", "4", "-", "1", "0", "-", "2", "0">>),
      provpass |-> Some(1), provpass_type |-> "verbal"]}

InitParse ==
    /\ phase = "idle"
    /\ tables = InitialTables
    /\ md_text \in Texts(DocFragments, MaxFragments)
    /\ hints \in HintChoices
    /\ ParseIdle
    /\ NormIdle /\ OptIdle /\ PipeIdle

\* a run that leaves the XYZ entry of SECTIONS with a fifth letter
ParseMarkdown_writing_tables ==
    /\ phase \in {"idle", "parsed"}
    /\ Len(runs) < MaxRuns
    /\ LET r == parse_markdown(md_text, hints.exam_date, hints.provpass, hints.provpass_type)
       IN  /\ result' = Some(r)
           /\ runs' = Append(runs, r)
    /\ phase' = "parsed"
    /\ tables' = [tables EXCEPT !.SECTIONS.XYZ.options = <<"A", "B", "C", "D", "E">>]
    /\ UNCHANGED <<the_ranges, the_blocks, docVars, normVars, optVars, pipeVars>>

\* one call of parse_markdown on the document; the tables are only read
ParseMarkdown ==
    /\ phase \in {"idle", "parsed"}
    /\ Len(runs) < MaxRuns
    /\ LET r == parse_markdown(md_text, hints.exam_date, hints.provpass, hints.provpass_type)
       IN  /\ result' = Some(r)
           /\ runs' = Append(runs, r)
    /\ phase' = "parsed"
    /\ UNCHANGED <<tables, the_ranges, the_blocks, docVars, normVars, optVars, pipeVars>>

NextParse == ParseMarkdown

SpecParse == InitParse /\ [][NextParse]_vars

\* the question numbers of a list of records, in order
NumbersOf(questions) == AsSeq([i \in 1..Len(questions) |-> questions[i].question_number])

\* the labels split_into_questions detected, in order
LabelsOf(text) ==
    AsSeq([i \in 1..Len(split_into_questions(text)) |-> split_into_questions(text)[i].q_num])

\* C1: the question numbers of the records parse_markdown returned are the labels
\* split_into_questions detected, and no question number is on two records.
C1_QuestionNumbersDistinct ==
    (phase = "parsed" /\ result # None) =>
        /\ NumbersOf(result[1].questions) = LabelsOf(md_text)
        /\ \A i, j \in 1..Len(result[1].questions) :
              result[1].questions[i].question_number
                  = result[1].questions[j].question_number => i = j

\* the same label has been detected twice and the document parsed
C1_Witness ==
    /\ phase = "parsed"
    /\ result # None
    /\ \E i, j \in 1..Len(result[1].questions) :
          i # j /\ LabelsOf(md_text)[i] = LabelsOf(md_text)[j]

C10_NoLabelsNoQuestions ==
    (phase = "parsed" /\ result # None /\ Search(question_pattern, md_text, 1) = NoMatch) =>
        /\ split_into_questions(md_text) = <<>>
        /\ result[1].questions = <<>>
        /\ result[1].metadata.total_questions = 0
        /\ result[1].metadata.questions_with_images = 0
        /\ result[1].metadata.questions_with_flags = 0
        /\ \A c \in DOMAIN result[1].metadata.sections :
              result[1].metadata.sections[c].question_count = 0

\* a text without labels that is not empty has been parsed
C10_Witness ==
    /\ phase = "parsed"
    /\ result # None
    /\ md_text # <<>>
    /\ Search(question_pattern, md_text, 1) = NoMatch
    /\ result[1].questions = <<>>

\* C12: in the result of parse_markdown, total_questions is the number of
\* records, questions_with_images the number of records with images,
\* questions_with_flags the number of records with flags, and the question_count
\* of each subsection listed in metadata.sections the number of records of that
\* section.
C12_SummaryCounts ==
    (phase = "parsed" /\ result # None) =>
        /\ result[1].metadata.total_questions = Len(result[1].questions)
        /\ result[1].metadata.questions_with_images =
              Cardinality({i \in 1..Len(result[1].questions) :
                              result[1].questions[i].images # <<>>})
        /\ result[1].metadata.questions_with_flags =
              Cardinality({i \in 1..Len(result[1].questions) :
                              result[1].questions[i].flags # <<>>})
        /\ \A c \in DOMAIN result[1].metadata.sections :
              result[1].metadata.sections[c].question_count =
                  Cardinality({i \in 1..Len(result[1].questions) :
                                  result[1].questions[i].section = c})

\* a result with one record, which has no flag, and one with two records of
\* which one has an image are both reachable; this is the first
C12_Witness ==
    /\ phase = "parsed"
    /\ result # None
    /\ Len(result[1].questions) = 1
    /\ result[1].questions[1].flags = <<>>
    /\ result[1].metadata.sections["XYZ"].question_count = 1

(***************************************************************************)
(* process_entry on one document key, run after run, with the markdown     *)
(* file and the override file edited between the runs                      *)
(***************************************************************************)
LabelOne == <<"1", ".", " ", "q", "\n">>
LabelTwo == <<"2", ".", " ", "r", "\n">>
OptsAB == <<"-", " ", "A", " ", "x", "\n", "-", " ", "B", " ", "y", "\n">>
OptC == <<"-", " ", "C", " ", "z", "\n">>
OptD == <<"-", " ", "D", " ", "w", "\n">>
ImageLine == <<"!", "[", "a", "]", "(", "p", ".", "j", "p", "e", "g", ")", "\n">>

\* the markdown files: empty, a question with three of four options, a question
\* with an image and four options, two questions of which the second has one option
PipeDocs ==
    {<<>>,
     LabelOne \o OptsAB \o OptC,
     LabelOne \o ImageLine \o OptsAB \o OptC \o OptD,
     LabelOne \o OptsAB \o OptC \o OptD \o LabelTwo \o OptsAB}

\* the entry discover builds for output/2024-10-20/provpass-1-kvant/
PipeEntry ==
    [exam_date |-> Some(<<"2", "0", "2", "4", "-", "1", "0", "-", "2", "0">>),
     provpass |-> Some(1),
     provpass_type |-> "kvant"]

\* the files of the provpass directory
SourceDir == (<<"p", "jpeg">> :> 3) @@ (<<"t", "png">> :> 5) @@ (<<"doc", "md">> :> 9)

FourOptions ==
    <<[letter |-> "A", text |-> <<"x">>], [letter |-> "B", text |-> <<"y">>],
      [letter |-> "C", text |-> <<"z">>], [letter |-> "D", text |-> <<"v">>]>>

\* the override files written by hand
Patches ==
    {(<<"1">> :> [reviewed |-> TRUE]),
     (<<"1">> :> [options |-> FourOptions]),
     (<<"1">> :> [flags |-> <<>>, reviewed |-> FALSE]),
     (<<"1">> :> [flags |-> <<<<"MANUAL">>>>]),
     (<<"9">> :> [flags |-> <<<<"MANUAL">>>>, reviewed |-> TRUE])
        @@ (<<"0", "1">> :> [reviewed |-> TRUE]),
     (<<"1">> :> [comment |-> <<"c">>, question_text |-> <<"t">>, kvantitet_I |-> <<"4">>])
        @@ (<<"2">> :> [reviewed |-> TRUE,
                        images |-> <<[alt_text |-> <<>>, filename |-> <<"t", ".", "p", "n", "g">>]>>])}

\* the phases in which no run is under way
Rest == {"idle", "done", "status"}

InitPipeline ==
    /\ phase = "idle"
    /\ tables = InitialTables
    /\ md_text \in PipeDocs
    /\ hints = PipeEntry
    /\ files = NoFiles
    /\ data = None
    /\ merge_only = FALSE
    /\ status = "none"
    /\ NormIdle /\ OptIdle /\ ParseIdle

\* the markdown file is replaced (a new conversion of the PDF)
EditMarkdown ==
    /\ phase \in Rest
    /\ md_text' \in PipeDocs \ {md_text}
    /\ phase' = "idle"
    /\ UNCHANGED <<tables, hints, normVars, optVars, parseVars, pipeVars>>

\* the override file is written, replaced or removed
WriteOverride ==
    /\ phase \in Rest
    /\ \E o \in ({None} \cup {Some(p) : p \in Patches}) \ {files.overrides} :
          files' = [files EXCEPT !.overrides = o]
    /\ phase' = "idle"
    /\ UNCHANGED <<tables, docVars, normVars, optVars, parseVars, data, merge_only, status>>

\* a phase 1 that takes the parsed file of an earlier run when there is one
PhaseParse_reusing_parsed ==
    /\ phase \in Rest
    /\ merge_only' = FALSE
    /\ LET parsed_data == phase_parse(hints, md_text)
       IN  /\ files' = IF files.parsed # None THEN files
                       ELSE [files EXCEPT !.parsed = Some(parsed_data)]
           /\ data' = IF files.parsed # None THEN files.parsed ELSE Some(parsed_data)
    /\ phase' = "merge"
    /\ UNCHANGED <<tables, docVars, normVars, optVars, parseVars, status>>

\* process_entry(entry): phase 1, which writes the parsed file and returns the dict
PhaseParse ==
    /\ phase \in Rest
    /\ merge_only' = FALSE
    /\ LET parsed_data == phase_parse(hints, md_text)
       IN  /\ files' = [files EXCEPT !.parsed = Some(parsed_data)]
           /\ data' = Some(parsed_data)
    /\ phase' = "merge"
    /\ UNCHANGED <<tables, docVars, normVars, optVars, parseVars, status>>

\* process_entry(entry, merge_only=True) when there is a parsed file: it is loaded
LoadParsed ==
    /\ phase \in Rest
    /\ files.parsed # None
    /\ merge_only' = TRUE
    /\ data' = files.parsed
    /\ phase' = "merge"
    /\ UNCHANGED <<tables, docVars, normVars, optVars, parseVars, files, status>>

\* process_entry(entry, merge_only=True) when there is no parsed file: it returns
SkipMergeOnly ==
    /\ phase \in Rest
    /\ files.parsed = None
    /\ merge_only' = TRUE
    /\ phase' = "idle"
    /\ UNCHANGED <<tables, docVars, normVars, optVars, parseVars, files, data, status>>

\* phase 2
PhaseMergeOverrides ==
    /\ phase = "merge"
    /\ data' = Some(phase_merge_overrides(files.overrides, data[1]))
    /\ phase' = IF merge_only THEN "rewrite" ELSE "copy"
    /\ UNCHANGED <<tables, docVars, normVars, optVars, parseVars, files, merge_only, status>>

\* phase 3, of a full run only
PhaseCopyImages ==
    /\ phase = "copy"
    /\ files' = [files EXCEPT !.images = phase_copy_images(SourceDir, files.images)]
    /\ phase' = "rewrite"
    /\ UNCHANGED <<tables, docVars, normVars, optVars, parseVars, data, merge_only, status>>

\* phase 4
RewriteImagePaths ==
    /\ phase = "rewrite"
    /\ data' = Some(rewrite_image_paths(KeyOf(hints), data[1]))
    /\ phase' = "write"
    /\ UNCHANGED <<tables, docVars, normVars, optVars, parseVars, files, merge_only, status>>

\* a phase 5 that also saves what it writes as the parsed file
PhaseWriteFinal_also_writing_parsed ==
    /\ phase = "write"
    /\ files' = [files EXCEPT !.final = data, !.parsed = data]
    /\ data' = None
    /\ phase' = "done"
    /\ UNCHANGED <<tables, docVars, normVars, optVars, parseVars, merge_only, status>>

\* phase 5; process_entry returns
PhaseWriteFinal ==
    /\ phase = "write"
    /\ files' = [files EXCEPT !.final = data]
    /\ data' = None
    /\ phase' = "done"
    /\ UNCHANGED <<tables, docVars, normVars, optVars, parseVars, merge_only, status>>

\* compute_status(entry), as update_status_file calls it
ComputeStatus ==
    /\ phase \in Rest
    /\ status' = compute_status(files.final)
    /\ phase' = "status"
    /\ UNCHANGED <<tables, docVars, normVars, optVars, parseVars, files, data, merge_only>>

NextPipeline ==
    \/ EditMarkdown \/ WriteOverride
    \/ PhaseParse \/ LoadParsed \/ SkipMergeOnly
    \/ PhaseMergeOverrides \/ PhaseCopyImages \/ RewriteImagePaths \/ PhaseWriteFinal
    \/ ComputeStatus

SpecPipeline == InitPipeline /\ [][NextPipeline]_vars

\* the positions of the flags of q that contain OPTION_COUNT_MISMATCH
MismatchFlags(q) ==
    {i \in 1..Len(q.flags) : Contains(q.flags[i], <<"OPTION_COUNT_MISMATCH">>)}

\* q has the expected number of options exactly when it has no count-mismatch
\* flag, and otherwise one such flag, which names both numbers
CountFlagAgrees(q) ==
    /\ Len(q.options) = Len(expected_letters(q.section)) <=> MismatchFlags(q) = {}
    /\ Len(q.options) # Len(expected_letters(q.section)) =>
          /\ Cardinality(MismatchFlags(q)) = 1
          /\ \A i \in MismatchFlags(q) :
                /\ Contains(q.flags[i],
                            <<"Expected ">> \o IntToStr(Len(expected_letters(q.section))))
                /\ Contains(q.flags[i], <<"found ">> \o IntToStr(Len(q.options)))

AllAgree(file) == file # None => \A i \in 1..Len(file[1].questions) : CountFlagAgrees(file[1].questions[i])

\* C3 as stated: every record, of the parsed file and of the final output alike,
\* has the expected number of options exactly when it has no count-mismatch flag.
C3_EveryRecordCountFlag ==
    phase \in Rest => AllAgree(files.parsed) /\ AllAgree(files.final)

\* C3: every record parse_markdown returned (the dict in hand before the merge of
\* a full run, and the parsed file) has the expected number of options exactly
\* when it has no count-mismatch flag; with k of n options, k # n, it has exactly
\* one flag containing OPTION_COUNT_MISMATCH, which contains "Expected n" and
\* "found k".
C3_ExtractedRecordCountFlag ==
    /\ AllAgree(files.parsed)
    /\ (phase = "merge" /\ ~merge_only) => AllAgree(data)

\* the parsed file has a record with three of four options and its flag; the
\* final output has that record with the four options of the patch and the flag
C3_Witness ==
    /\ phase = "done"
    /\ files.parsed # None /\ files.final # None
    /\ Len(files.parsed[1].questions) = 1
    /\ Len(files.parsed[1].questions[1].options) = 3
    /\ files.parsed[1].questions[1].flags = <<FLAG_OPTION_COUNT_MISMATCH(4, 3)>>
    /\ Len(files.final[1].questions[1].options) = 4
    /\ files.final[1].questions[1].flags = <<FLAG_OPTION_COUNT_MISMATCH(4, 3)>>

\* what phase_merge_overrides may do to a record q with patch entry e, r being
\* the record after the merge
PatchedAs(q, r, e) ==
    /\ \A f \in {"question_text", "options", "images", "flags", "kvantitet_I",
                 "kvantitet_II", "statements"} :
          IF f \in DOMAIN e THEN f \in DOMAIN r /\ r[f] = e[f]
          ELSE (f \in DOMAIN r <=> f \in DOMAIN q) /\ (f \in DOMAIN q => r[f] = q[f])
    /\ IF "reviewed" \in DOMAIN e /\ e.reviewed
       THEN "reviewed" \in DOMAIN r /\ r.reviewed = TRUE
       ELSE "reviewed" \in DOMAIN r <=> "reviewed" \in DOMAIN q
    /\ \A f \in {"question_number", "section", "section_name"} : r[f] = q[f]
    /\ DOMAIN r \subseteq DOMAIN q \cup {"question_text", "options", "images", "flags",
                                        "kvantitet_I", "kvantitet_II", "statements",
                                        "reviewed"}

MergedAs(before, after, override_file) ==
    /\ Len(after.questions) = Len(before.questions)
    /\ \A i \in 1..Len(before.questions) :
          IF override_file = None
             \/ IntToStr(before.questions[i].question_number) \notin DOMAIN override_file[1]
          THEN after.questions[i] = before.questions[i]
          ELSE PatchedAs(before.questions[i], after.questions[i],
                         override_file[1][IntToStr(before.questions[i].question_number)])

\* C6: a step of phase_merge_overrides replaces, in each record whose number as a
\* string is a key of the patch, every listed field the entry has by the entry's
\* value and sets reviewed when the entry's reviewed is truthy; the other fields
\* of that record, the records without a patch entry, and the number and order
\* of the records stay as they were; keys matching no record and fields outside
\* the list change nothing.
C6_MergeReplacesOnlyPatchedFields ==
    [][PhaseMergeOverrides => MergedAs(data[1], data'[1], files.overrides)]_vars

\* the merge has just patched two records with a patch that has an unlisted field
C6_Witness ==
    /\ phase \in {"copy", "rewrite"}
    /\ files.overrides # None
    /\ <<"1">> \in DOMAIN files.overrides[1]
    /\ "comment" \in DOMAIN files.overrides[1][<<"1">>]
    /\ Len(data[1].questions) = 2
    /\ data[1].questions[1].question_text = <<"t">>
    /\ "kvantitet_I" \in DOMAIN data[1].questions[1]
    /\ "comment" \notin DOMAIN data[1].questions[1]
    /\ data[1].questions[2].reviewed = TRUE

NoneReviewed(file) ==
    file # None => \A i \in 1..Len(file[1].questions) : "reviewed" \notin DOMAIN file[1].questions[i]

\* q is not marked reviewed, or the override file has a truthy reviewed entry
\* for its question number
ReviewedByPatch(q) ==
    ("reviewed" \in DOMAIN q /\ q.reviewed = TRUE) =>
        /\ files.overrides # None
        /\ IntToStr(q.question_number) \in DOMAIN files.overrides[1]
        /\ "reviewed" \in DOMAIN files.overrides[1][IntToStr(q.question_number)]
        /\ files.overrides[1][IntToStr(q.question_number)].reviewed = TRUE

AllReviewedByPatch(file) ==
    file # None => \A i \in 1..Len(file[1].questions) : ReviewedByPatch(file[1].questions[i])

\* C7: no record of the dict parse_markdown returned or of the parsed file has a
\* reviewed field, and a record of a run (after the merge, and in the final
\* output the run wrote) has reviewed = true only if the patch entry for its
\* question number has a truthy reviewed.
C7_ReviewedOnlyFromOverride ==
    /\ NoneReviewed(files.parsed)
    /\ (phase = "merge" /\ ~merge_only) => NoneReviewed(data)
    /\ phase \in {"copy", "rewrite", "write"} => AllReviewedByPatch(data)
    /\ phase = "done" => AllReviewedByPatch(files.final)

\* a run has written a record marked reviewed; the parsed file has it unmarked
C7_Witness ==
    /\ phase = "done"
    /\ files.final # None /\ files.parsed # None
    /\ \E i \in 1..Len(files.final[1].questions) :
          /\ "reviewed" \in DOMAIN files.final[1].questions[i]
          /\ files.final[1].questions[i].reviewed = TRUE
          /\ "reviewed" \notin DOMAIN files.parsed[1].questions[i]

\* the flags the override file gives record q, or else those of the extracted
\* record x
FlagsDue(q, x) ==
    IF /\ files.overrides # None
       /\ IntToStr(q.question_number) \in DOMAIN files.overrides[1]
       /\ "flags" \in DOMAIN files.overrides[1][IntToStr(q.question_number)]
    THEN files.overrides[1][IntToStr(q.question_number)].flags
    ELSE x.flags

\* the records of `final` have the flags of the records of `extracted`, except
\* where the override file replaces them
FlagsFrom(final, extracted) ==
    /\ Len(final.questions) = Len(extracted.questions)
    /\ \A i \in 1..Len(final.questions) :
          final.questions[i].flags = FlagsDue(final.questions[i], extracted.questions[i])

\* C8: when a run has ended, the flags of each record of the final output are
\* those of the extraction it rests on (the parsed file) unless the override file
\* replaces the flags field; when a full run has ended, that extraction is the
\* one of the markdown text as it is, and the final output is what parsing that
\* text, merging the override file as it is and rewriting the image paths gives,
\* whatever runs and edits went before.
C8_FinalFromCurrentInputs ==
    /\ phase = "done" => files.final # None /\ FlagsFrom(files.final[1], files.parsed[1])
    /\ (phase = "done" /\ ~merge_only) =>
          /\ FlagsFrom(files.final[1], phase_parse(hints, md_text))
          /\ files.final[1] = rewrite_image_paths(KeyOf(hints),
                                  phase_merge_overrides(files.overrides, phase_parse(hints, md_text)))

\* a full run has ended with no override file and no flag in its output, after
\* the status was computed from an earlier output that had an unreviewed flag
C8_Witness ==
    /\ phase = "done"
    /\ ~merge_only
    /\ status = "needs_review"
    /\ files.overrides = None
    /\ files.final # None
    /\ files.final[1].questions # <<>>
    /\ \A i \in 1..Len(files.final[1].questions) : files.final[1].questions[i].flags = <<>>

\* the records of the final output with a non-empty flags list and no truthy
\* reviewed marker
Unreviewed(final) ==
    {i \in 1..Len(final.questions) :
        /\ "flags" \in DOMAIN final.questions[i]
        /\ final.questions[i].flags # <<>>
        /\ ~("reviewed" \in DOMAIN final.questions[i] /\ final.questions[i].reviewed = TRUE)}

\* C9: the status compute_status returned is not_processed exactly when there is
\* no final file, needs_review exactly when the final file has a question with a
\* non-empty flags list and no truthy reviewed marker, and clean exactly when the
\* final file has no such question (a file without questions included).
C9_StatusFromFinal ==
    phase = "status" =>
        /\ status \in {"not_processed", "needs_review", "clean"}
        /\ status = "not_processed" <=> files.final = None
        /\ status = "needs_review" <=> (files.final # None /\ Unreviewed(files.final[1]) # {})
        /\ status = "clean" <=> (files.final # None /\ Unreviewed(files.final[1]) = {})

\* the status of a final output whose only flagged question is reviewed
C9_Witness ==
    /\ phase = "status"
    /\ status = "clean"
    /\ files.final # None
    /\ \E i \in 1..Len(files.final[1].questions) :
          /\ files.final[1].questions[i].flags # <<>>
          /\ "reviewed" \in DOMAIN files.final[1].questions[i]

(***************************************************************************)
(* The stages of parse_markdown on a document with a section table:        *)
(* parse_section_ranges, split_into_questions, then the whole function     *)
(***************************************************************************)
MaxStageFragments == 3

RowXYZ == <<"|", " ", "X", "Y", "Z", " ", "|", " ", "1", "2", " ", "|", " ", "1", "-", "5", " ", "|", "\n">>
RowXyzEmpty == <<"|", " ", "x", "y", "z", " ", "|", " ", "3", " ", "|", " ", "9", "EN_DASH", "3", " ", "|", "\n">>
RowFoo == <<"|", " ", "F", "O", "O", " ", "|", " ", "1", " ", "|", " ", "1", "-", "9", " ", "|", "\n">>
RowOrd == <<"|", " ", "O", "R", "D", " ", "|", " ", "1", "0", " ", "|", " ", "2", "-", "2", " ", "|", "\n">>
LabelTwoQ == <<"2", ".", " ", "q", "\n">>
LabelZero == <<"0", ".", " ", "z", "\n">>

\* table rows (a known code, the same code in lower case with an empty range, an
\* unknown code, a verbal code) and question labels (2 and 0)
StageFragments == {RowXYZ, RowXyzEmpty, RowFoo, RowOrd, LabelTwoQ, LabelZero}

\* the tags discover gives: kvant, verbal, and unknown for any other directory
StageHints ==
    {[exam_date |-> None, provpass |-> None, provpass_type |-> t] :
        t \in {"kvant", "verbal", "unknown"}}

InitStages ==
    /\ phase = "idle"
    /\ tables = InitialTables
    /\ md_text \in Texts(StageFragments, MaxStageFragments)
    /\ hints \in StageHints
    /\ ParseIdle
    /\ NormIdle /\ OptIdle /\ PipeIdle

\* section_ranges = parse_section_ranges(md_text, provpass_type)
ParseSectionRanges ==
    /\ phase = "idle"
    /\ the_ranges' = Some(parse_section_ranges(md_text, hints.provpass_type))
    /\ phase' = "ranges"
    /\ UNCHANGED <<tables, result, runs, the_blocks, docVars, normVars, optVars, pipeVars>>

\* question_blocks = split_into_questions(md_text)
SplitIntoQuestions ==
    /\ phase = "ranges"
    /\ the_blocks' = Some(split_into_questions(md_text))
    /\ phase' = "split"
    /\ UNCHANGED <<tables, result, runs, the_ranges, docVars, normVars, optVars, pipeVars>>

\* parse_markdown on the same document
ParseStaged ==
    /\ phase = "split"
    /\ result' = Some(parse_markdown(md_text, hints.exam_date, hints.provpass,
                                     hints.provpass_type))
    /\ phase' = "staged"
    /\ UNCHANGED <<tables, runs, the_ranges, the_blocks, docVars, normVars, optVars, pipeVars>>

NextStages == ParseSectionRanges \/ SplitIntoQuestions \/ ParseStaged

SpecStages == InitStages /\ [][NextStages]_vars

\* C11 as stated: every record's question_number is at least 1 and at most 99.
C11_QuestionNumberPositive ==
    (phase = "staged" /\ result # None) =>
        \A i \in 1..Len(result[1].questions) :
            /\ result[1].questions[i].question_number >= 1
            /\ result[1].questions[i].question_number <= 99

\* a document with the label "0." at line start has been parsed
C11_Witness ==
    /\ phase = "staged"
    /\ result # None
    /\ md_text = LabelZero
    /\ Len(result[1].questions) = 1

\* the table rows of the text whose upper-cased code is the code c
RowsFor(text, rows, c) ==
    {n \in 1..Len(rows) : Upper(Group(text, rows[n], 1)) = Spelling(c)}

\* the (start, end) written in the row
RowRange(text, row) == <<ParseInt(Group(text, row, 3)), ParseInt(Group(text, row, 4))>>

\* the mapping has for the code c the range of the last row of c, or without
\* such a row what the default table has for c
RangeAsLastRow(ranges, defaults, text, rows, c) ==
    IF RowsFor(text, rows, c) = {} THEN RangeOf(ranges, c) = RangeOf(defaults, c)
    ELSE RangeOf(ranges, c) =
            RowRange(text, rows[CHOOSE n \in RowsFor(text, rows, c) :
                                    \A m \in RowsFor(text, rows, c) : m <= n])

\* C14: the mapping returned by parse_section_ranges holds only known subsection
\* codes, each once; the range of a code is that of the last table row in
\* document order whose upper-cased code it is, and without such a row the
\* default of the chosen table, which is the verbal one for the tag "verbal" and
\* the quantitative one for every other tag; rows with an unknown code change
\* nothing.
C14_LastRowWins ==
    the_ranges # None =>
        /\ \A i, j \in 1..Len(the_ranges[1]) :
              /\ the_ranges[1][i].code \in DOMAIN tables.SECTIONS
              /\ the_ranges[1][i].code = the_ranges[1][j].code => i = j
        /\ \A c \in DOMAIN tables.SECTIONS :
              RangeAsLastRow(the_ranges[1],
                             IF hints.provpass_type = "verbal" THEN DefaultRangesVerbal
                             ELSE DefaultRangesKvant,
                             md_text, FindIter(table_pattern, md_text), c)

\* under the tag "unknown", a row of XYZ, a later row of xyz with an en dash and
\* a row of the unknown code FOO: XYZ has the range of the later row, KVA its
\* quantitative default
C14_Witness ==
    /\ the_ranges # None
    /\ hints.provpass_type = "unknown"
    /\ md_text = RowXYZ \o RowXyzEmpty \o RowFoo
    /\ RangeOf(the_ranges[1], "XYZ") = <<9, 3>>
    /\ RangeOf(the_ranges[1], "KVA") = <<13, 22>>
    /\ Len(the_ranges[1]) = 4

\* the entries of the mapping whose range, both ends included, holds the number
Containing(ranges, n) ==
    {i \in 1..Len(ranges) : ranges[i].start <= n /\ n <= ranges[i].end}

\* the section of a record is "UNKNOWN" exactly if no range holds its number,
\* and otherwise a code of the mapping whose range holds it
SectionResolved(q, ranges) ==
    /\ q.section = "UNKNOWN" <=> Containing(ranges, q.question_number) = {}
    /\ q.section # "UNKNOWN" =>
          \E i \in Containing(ranges, q.question_number) : ranges[i].code = q.section

\* C15: every record's section is either a code of the resolved range mapping
\* whose range holds the record's question number (start <= number <= end), or
\* "UNKNOWN", and it is "UNKNOWN" if and only if no resolved range holds the
\* number; a range with start > end holds no number.
C15_SectionFromRanges ==
    (phase = "staged" /\ result # None /\ the_ranges # None) =>
        \A i \in 1..Len(result[1].questions) :
            SectionResolved(result[1].questions[i], the_ranges[1])

\* question 2 under a table whose XYZ row is 9-3 and whose ORD row is 2-2 is in
\* ORD; without the ORD row it would be in no range
C15_Witness ==
    /\ phase = "staged"
    /\ result # None
    /\ the_ranges # None
    /\ md_text = RowXyzEmpty \o RowOrd \o LabelTwoQ
    /\ hints.provpass_type = "kvant"
    /\ Len(result[1].questions) = 1
    /\ result[1].questions[1].section = "ORD"
    /\ RangeOf(the_ranges[1], "XYZ") = <<9, 3>>

\* where the i-th label's stretch of the text ends: at the next label's start,
\* or after the last character
StretchEnd(text, labels, i) ==
    IF i < Len(labels) THEN labels[i + 1].s ELSE Len(text) + 1

\* b is the text from position from up to (not including) position to, less
\* whitespace at its two ends only
TrimOf(b, text, from, to) ==
    \E a \in from..to : \E z \in (a - 1)..(to - 1) :
        /\ b = SubSeq(text, a, z)
        /\ \A p \in from..(a - 1) : text[p] \in Whitespace
        /\ \A p \in (z + 1)..(to - 1) : text[p] \in Whitespace
        /\ b # <<>> => (b[1] \notin Whitespace /\ b[Len(b)] \notin Whitespace)

\* C16: split_into_questions returns one (number, text) pair per label match, in
\* document order; the number is the integer the label shows and the text is
\* the document from that label's start up to the next label's start (the end
\* of the document for the last), trimmed of whitespace at its ends only. The
\* stretches are consecutive and start at the first label, so the blocks do not
\* overlap, text before the first label is in no block, and every character
\* from the first label on is in exactly one block or is trimmed whitespace.
C16_BlocksPartitionDocument ==
    the_blocks # None =>
        /\ Len(the_blocks[1]) = Len(FindIter(question_pattern, md_text))
        /\ \A i \in 1..Len(the_blocks[1]) :
              /\ the_blocks[1][i].q_num =
                    ParseInt(Group(md_text, FindIter(question_pattern, md_text)[i], 1))
              /\ TrimOf(the_blocks[1][i].block_text, md_text,
                        FindIter(question_pattern, md_text)[i].s,
                        StretchEnd(md_text, FindIter(question_pattern, md_text), i))

\* a table row, then the labels 2 and 0: two blocks, the first one ending before
\* the second label and the row in neither
C16_Witness ==
    /\ the_blocks # None
    /\ md_text = RowFoo \o LabelTwoQ \o LabelZero
    /\ the_blocks[1] = <<[q_num |-> 2, block_text |-> <<"2", ".", " ", "q">>],
                         [q_num |-> 0, block_text |-> <<"0", ".", " ", "z">>]>>

\* C17 as stated: for every canonical letter L in A-E, a character is among the
\* variants extract_question_text searches for L exactly if normalize_letter
\* maps the character to L.
C17_ReverseMapExact ==
    (phase = "normalize" /\ Len(norm) >= 1) =>
        \A L \in {"A", "B", "C", "D", "E"} :
            InStr(letter, reverse_map(L)) <=> norm[1] = L

\* the Cyrillic Be is normalized to B and is not among the variants of B
C17_Witness ==
    /\ phase = "normalize"
    /\ letter = "CYR_BE"
    /\ Len(norm) >= 1
    /\ norm[1] = "B"
    /\ ~InStr("CYR_BE", reverse_map("B"))

\* what a full run writes as final output for the markdown text and the
\* override file as they are
FullRunOutput ==
    rewrite_image_paths(KeyOf(hints),
        phase_merge_overrides(files.overrides, phase_parse(hints, md_text)))

\* C18: the parsed file is written by phase 1 of a full run only, as the
\* extraction of the markdown text, so that no merge, image-path rewrite or
\* final write ever changes it; and when a merge-only run has ended on the
\* parsed file that a full run on the same markdown text leaves, its final
\* output is the one a full run writes for that markdown text and that
\* override file.
C18_MergeOnlyAsFullRun ==
    /\ [][files'.parsed # files.parsed =>
            /\ phase' = "merge"
            /\ ~merge_only'
            /\ files'.parsed = Some(phase_parse(hints, md_text))]_vars
    /\ []((phase = "done" /\ merge_only /\ files.parsed = Some(phase_parse(hints, md_text)))
            => files.final = Some(FullRunOutput))

\* a merge-only run has ended on the document with an image under an override
\* that marks question 1 reviewed: the final output has the marker and the
\* rewritten image path, the parsed file has neither
C18_Witness ==
    /\ phase = "done"
    /\ merge_only
    /\ md_text = LabelOne \o ImageLine \o OptsAB \o OptC \o OptD
    /\ files.overrides = Some(<<"1">> :> [reviewed |-> TRUE])
    /\ files.parsed = Some(phase_parse(hints, md_text))
    /\ files.final # None
    /\ files.final[1].questions[1].reviewed = TRUE
    /\ "reviewed" \notin DOMAIN files.parsed[1].questions[1]
    /\ files.final[1].questions[1].images[1].filename
          # files.parsed[1].questions[1].images[1].filename

\* the number of records with a non-empty list in the field
CountWith(questions, field) ==
    Cardinality({i \in 1..Len(questions) : questions[i][field] # <<>>})

\* the merged document has the metadata of the one given, and as many records,
\* each with the number, section and section name it had
FrameKept(before, after) ==
    /\ after.metadata = before.metadata
    /\ Len(after.questions) = Len(before.questions)
    /\ \A i \in 1..Len(before.questions) :
          /\ after.questions[i].question_number = before.questions[i].question_number
          /\ after.questions[i].section = before.questions[i].section
          /\ after.questions[i].section_name = before.questions[i].section_name

\* C19: the merge step leaves the metadata block as it was, and each record's
\* question_number, section and section_name; so when a run has ended the
\* metadata of the final output is that of the parsed file, whose
\* questions_with_flags and questions_with_images count the records of the
\* extraction, whatever flags or images the override file put in their place.
C19_MergeKeepsMetadata ==
    /\ [][PhaseMergeOverrides => FrameKept(data[1], data'[1])]_vars
    /\ [](phase = "done" =>
            /\ files.final[1].metadata = files.parsed[1].metadata
            /\ files.final[1].metadata.questions_with_flags =
                  CountWith(files.parsed[1].questions, "flags")
            /\ files.final[1].metadata.questions_with_images =
                  CountWith(files.parsed[1].questions, "images"))

\* a run has ended under an override that gives the unflagged question 1 a flag:
\* the final output has one flagged record and a questions_with_flags of 0
C19_Witness ==
    /\ phase = "done"
    /\ files.overrides = Some(<<"1">> :> [flags |-> <<<<"MANUAL">>>>])
    /\ files.final # None
    /\ Len(files.final[1].questions) = 1
    /\ files.final[1].questions[1].flags = <<<<"MANUAL">>>>
    /\ files.final[1].metadata.questions_with_flags = 0
    /\ CountWith(files.final[1].questions, "flags") = 1

Spec == SpecParse
====
